---- MODULE Spec2Model ----
(***************************************************************************)
(* Model of the SVG pipeline of SVG_Generator_Modular: the Sanitizer       *)
(* (utils/sanitize.py), the unused-definition pruning of ComplianceUtils   *)
(* (utils/compliance.py) and the stage sequencing of cli.main.             *)
(*                                                                         *)
(* Strings are modelled structurally.  A name or an attribute value is a   *)
(* sequence of tokens, so that the code's string operations (split on "}", *)
(* split on ":", substring tests, the url(#..) regular expression) are     *)
(* computed on the tokens and not assumed.  A document string is a record  *)
(*   [lead, prolog, kind, root]                                            *)
(* lead   : number of whitespace characters before anything else           *)
(* prolog : "none", "ok" (<?xml ...?>) or "open" (<?xml without ?>)        *)
(* kind   : "blank" (nothing or whitespace only after the prolog),         *)
(*          "malformed" (markup that is not well formed), "xml"            *)
(* root   : the root node as written (prefixed names), NilNode if none     *)
(* A written node is [tag, attrib, text, children]; tag and the attribute  *)
(* names are qualified names [p, u, l] (prefix, namespace URI, local).     *)
(* A parsed node (an ElementTree Element) has the same fields with names   *)
(* in Clark notation, the token sequence "{" uri "}" local.                *)
(***************************************************************************)
EXTENDS Naturals, Integers, Sequences, FiniteSets, TLC

VARIABLES
  pc,          \* position of the caller of the function under check
  policy,      \* the Sanitizer's [allowed_tags, prohibited_attrs_global]
  input,       \* the argument string
  out1,        \* the string returned by the first call
  out2,        \* the string returned by calling again on out1
  exc,         \* the exception that escaped the last call, "none" if none
  main_pc,                \* cli.main: the step about to run
  raw_svg_content,        \* cli.main: the generator's output
  sanitized_svg_content,  \* cli.main
  optimized_svg_content,  \* cli.main
  optimizer_arg,          \* the string main handed to optimize_svg_string
  output_file,            \* cli.main: <<>> until written, then <<content>>
  stages,                 \* cli.main: the stages called so far, in order
  max_size_bytes,         \* check_competition_compliance: its second argument
  results,                \* check_competition_compliance: the dict returned
  SCOUR_AVAILABLE,        \* optimizer.py: whether the scour import succeeded
  tiers,                  \* optimize_svg_string: the passes run, in order
  scene_description,      \* SVGGenerator.generate: its argument
  gen_pc,                 \* generate: "start", "adding", "returned" or "raised"
  calls,                  \* the calls of _add_element still to be made, as
                          \* <<element_desc, depth>>, the next one first
  deepest,                \* the largest depth _add_element was called with
  emitted,                \* the number of nodes _add_element has added
  svg_root                \* the tree generate has built

fvars == <<pc, policy, input, out1, out2, exc>>
mvars == <<main_pc, raw_svg_content, sanitized_svg_content,
           optimized_svg_content, optimizer_arg, output_file, stages>>
ovars == <<max_size_bytes, results, SCOUR_AVAILABLE, tiers>>
gvars == <<scene_description, gen_pc, calls, deepest, emitted, svg_root>>
vars == <<fvars, mvars, ovars, gvars>>

----------------------------------------------------------------------------
\* Bounds of the model

\* largest number of nodes of a generated tree
MaxNodes == 5
\* largest number of attributes on the node whose attributes vary
MaxAttrs == 2

----------------------------------------------------------------------------
\* config.py

ALLOWED_SVG_TAGS ==
  {"svg", "path", "circle", "rect", "polygon", "g", "defs",
   "linearGradient", "radialGradient", "stop", "pattern"}

PROHIBITED_SVG_ATTRIBUTES == {"style", "filter", "href", "class", "id"}

MAX_SVG_SIZE_BYTES == 10240

MAX_RECURSION_DEPTH_GENERATION == 3

\* the tags _sanitize_element treats as children of defs
DefinitionKinds == {"linearGradient", "radialGradient", "pattern", "stop"}

----------------------------------------------------------------------------
\* Names

SVG_NS == <<"http", ":", "//www.w3.org/2000/svg">>
XLINK_NS == <<"http", ":", "//www.w3.org/1999/xlink">>
OTHER_NS == <<"urn", ":", "other">>
NoNs == <<>>

QName(p, u, l) == [p |-> p, u |-> u, l |-> l]
Plain(l) == QName("", NoNs, l)

\* The name the parser hands to ElementTree: {uri}local, or local alone.
Clark(q) == IF q.u = NoNs THEN <<q.l>> ELSE <<"{">> \o q.u \o <<"}", q.l>>

HasToken(name, t) == \E i \in 1..Len(name) : name[i] = t

FirstIndex(name, t) == CHOOSE i \in 1..Len(name) :
                         /\ name[i] = t
                         /\ \A j \in 1..(i - 1) : name[j] # t

\* the tag taken as it is, namespace and all
StripNothing(tag) == tag

\* tag.split('}', 1)[1] when '}' is in the tag, the tag itself otherwise
_strip_namespace_from_tag(tag) ==
  IF HasToken(tag, "}")
    THEN SubSeq(tag, FirstIndex(tag, "}") + 1, Len(tag))
    ELSE tag

\* name.split(":", 1)[0]
SplitPrefix(name) ==
  IF HasToken(name, ":") THEN SubSeq(name, 1, FirstIndex(name, ":") - 1) ELSE name

\* `s in set` for a string given by its tokens
InSet(name, S) == Len(name) = 1 /\ name[1] \in S

----------------------------------------------------------------------------
\* Nodes

Node(tag, attrib, text, children) ==
  [tag |-> tag, attrib |-> attrib, text |-> text, children |-> children]

NilNode == Node(Plain(""), <<>>, "", <<>>)

RECURSIVE NodeSet(_)
\* the elements of a tree (root.iter(), //*)
NodeSet(n) == {n} \cup UNION { NodeSet(n.children[i]) : i \in 1..Len(n.children) }

RECURSIVE ParseNode(_)
\* XMLParser: prefixes are resolved, names become Clark names
ParseNode(n) ==
  [tag |-> Clark(n.tag),
   attrib |-> [i \in 1..Len(n.attrib) |-> <<Clark(n.attrib[i][1]), n.attrib[i][2]>>],
   text |-> n.text,
   children |-> [i \in 1..Len(n.children) |-> ParseNode(n.children[i])]]

\* The namespace URI of a Clark name (ElementTree: qname[1:].rsplit("}", 1))
LastIndex(name, t) == CHOOSE i \in 1..Len(name) :
                        /\ name[i] = t
                        /\ \A j \in (i + 1)..Len(name) : name[j] # t

ClarkUri(name) ==
  IF name[1] = "{" /\ HasToken(name, "}")
    THEN SubSeq(name, 2, LastIndex(name, "}") - 1)
    ELSE NoNs

ClarkLocal(name) == name[Len(name)]

RECURSIVE ConcatAll(_)
ConcatAll(ss) == IF ss = <<>> THEN <<>> ELSE Head(ss) \o ConcatAll(Tail(ss))

RECURSIVE NamesOf(_)
\* the qualified names of a tree in the order ElementTree's _namespaces meets
\* them: each element of elem.iter(), its tag and then its attribute keys
NamesOf(e) ==
  <<e.tag>> \o [i \in 1..Len(e.attrib) |-> e.attrib[i][1]]
            \o ConcatAll([i \in 1..Len(e.children) |-> NamesOf(e.children[i])])

RECURSIVE UrisInOrder(_, _)
UrisInOrder(names, seen) ==
  IF names = <<>> THEN seen
  ELSE LET u == ClarkUri(Head(names))
       IN UrisInOrder(Tail(names),
                      IF u = NoNs \/ (\E i \in 1..Len(seen) : seen[i] = u)
                        THEN seen ELSE Append(seen, u))

\* ElementTree's generated prefixes, "ns%d" % len(namespaces)
NsPrefixes == <<"ns0", "ns1", "ns2", "ns3">>

PrefixOf(u, uris) ==
  IF u = NoNs THEN "" ELSE NsPrefixes[CHOOSE i \in 1..Len(uris) : uris[i] = u]

Written(name, uris) == QName(PrefixOf(ClarkUri(name), uris), ClarkUri(name), ClarkLocal(name))

RECURSIVE WriteNode(_, _)
WriteNode(e, uris) ==
  [tag |-> Written(e.tag, uris),
   attrib |-> [i \in 1..Len(e.attrib) |-> <<Written(e.attrib[i][1], uris), e.attrib[i][2]>>],
   text |-> e.text,
   children |-> [i \in 1..Len(e.children) |-> WriteNode(e.children[i], uris)]]

----------------------------------------------------------------------------
\* Document strings

Doc(lead, prolog, kind, root) ==
  [lead |-> lead, prolog |-> prolog, kind |-> kind, root |-> root]

EmptyString == Doc(0, "none", "blank", NilNode)

XmlDoc(root) == Doc(0, "none", "xml", root)

\* ET.tostring(root, encoding="unicode", method="xml")
ET_tostring(e) == XmlDoc(WriteNode(e, UrisInOrder(NamesOf(e), <<>>)))

\* not s.strip()
IsBlank(s) == s.kind = "blank" /\ s.prolog = "none"

\* ET.fromstring: <<"ParseError">> or <<"ok", root element>>.  An XML
\* declaration is accepted only at the very start of the text.
ET_fromstring(s) ==
  IF s.kind # "xml" \/ s.prolog = "open" \/ (s.prolog = "ok" /\ s.lead > 0)
    THEN <<"ParseError">>
    ELSE <<"ok", ParseNode(s.root)>>

----------------------------------------------------------------------------
\* utils/sanitize.py

Policy(allowed, prohibited) == [allowed_tags |-> allowed, prohibited_attrs_global |-> prohibited]

DefaultPolicy == Policy(ALLOWED_SVG_TAGS, PROHIBITED_SVG_ATTRIBUTES)

\* lines 53-68 with the exemption granted to every prohibited attribute of a
\* Definition-kind tag
AttrDeletedExemptAll(attr_name_raw, tag_name, pol) ==
  LET attr_name == _strip_namespace_from_tag(attr_name_raw)
      is_def_child == InSet(tag_name, DefinitionKinds)
  IN  IF InSet(attr_name, pol.prohibited_attrs_global) /\ ~is_def_child
        THEN TRUE
        ELSE IF HasToken(attr_name_raw, ":")
          THEN /\ SplitPrefix(attr_name_raw) = <<"xlink">>
               /\ HasToken(attr_name_raw, "href")
          ELSE FALSE

\* the test of lines 53-68 that decides `del element.attrib[attr_name_raw]`
AttrDeleted(attr_name_raw, tag_name, pol) ==
  LET attr_name == _strip_namespace_from_tag(attr_name_raw)
      is_def_child == InSet(tag_name, DefinitionKinds)
  IN  IF /\ InSet(attr_name, pol.prohibited_attrs_global)
         /\ ~(attr_name = <<"id">> /\ is_def_child)
        THEN TRUE
        ELSE IF HasToken(attr_name_raw, ":")
          THEN /\ SplitPrefix(attr_name_raw) = <<"xlink">>
               /\ HasToken(attr_name_raw, "href")
          ELSE FALSE

RECURSIVE _sanitize_element(_, _)
RECURSIVE SanitizeChildren(_, _)
RECURSIVE SanitizeChildrenLive(_, _)

\* lines 72-82 as they would run over the live child list instead of a copy:
\* removing a child shifts the list, and the sibling after it is never visited
SanitizeChildrenLive(children, pol) ==
  IF children = <<>> THEN <<>>
  ELSE LET sanitized_child == _sanitize_element(Head(children), pol)
       IN  IF sanitized_child = <<>>
             THEN IF Tail(children) = <<>> THEN <<>>
                  ELSE <<Head(Tail(children))>>
                         \o SanitizeChildrenLive(Tail(Tail(children)), pol)
             ELSE sanitized_child \o SanitizeChildrenLive(Tail(children), pol)

\* lines 72-82: every child of the copied list is sanitized; those that came
\* back None are removed, the others stay in place
SanitizeChildren(children, pol) ==
  IF children = <<>> THEN <<>>
  ELSE _sanitize_element(Head(children), pol) \o SanitizeChildren(Tail(children), pol)

\* <<>> for None, <<element>> otherwise
_sanitize_element(element, pol) ==
  LET tag_name == _strip_namespace_from_tag(element.tag)
      Keep(a) == ~AttrDeleted(a[1], tag_name, pol)
  IN  IF ~InSet(tag_name, pol.allowed_tags)
        THEN <<>>
        ELSE <<[tag |-> element.tag,
                attrib |-> SelectSeq(element.attrib, Keep),
                text |-> element.text,
                children |-> SanitizeChildren(element.children, pol)]>>

\* the fallback of line 121
ErrorSvg ==
  XmlDoc(Node(QName("", SVG_NS, "svg"),
              <<<<Plain("width"), <<"100">>>>, <<Plain("height"), <<"100">>>>>>,
              "",
              <<Node(QName("", SVG_NS, "text"), <<>>, "Error: Root SVG removed", <<>>)>>))

\* lines 102-110: the text from which the tree is parsed
ContentPart(s) ==
  IF s.lead = 0 /\ s.prolog = "ok" THEN [s EXCEPT !.prolog = "none"] ELSE s

\* lines 94-132 with a disallowed root raised as an error instead of answered
\* with the fallback document
SanitizeTryRaising(s, pol) ==
  LET svg_content_part == ContentPart(s)
      parsed == ET_fromstring(svg_content_part)
  IN  IF IsBlank(svg_content_part) THEN [exc |-> "none", val |-> s]
      ELSE IF parsed[1] = "ParseError" THEN [exc |-> "ParseError", val |-> s]
      ELSE LET sanitized_root == _sanitize_element(parsed[2], pol)
           IN  IF sanitized_root = <<>>
                 THEN [exc |-> "ValueError", val |-> s]
                 ELSE [exc |-> "none", val |-> ET_tostring(sanitized_root[1])]

\* the body of the try block, lines 94-132: [exc, val]
SanitizeTry(s, pol) ==
  LET svg_content_part == ContentPart(s)
      parsed == ET_fromstring(svg_content_part)
  IN  IF IsBlank(svg_content_part) THEN [exc |-> "none", val |-> s]
      ELSE IF parsed[1] = "ParseError" THEN [exc |-> "ParseError", val |-> s]
      ELSE LET sanitized_root == _sanitize_element(parsed[2], pol)
           IN  IF sanitized_root = <<>>
                 THEN [exc |-> "none", val |-> ErrorSvg]
                 ELSE [exc |-> "none", val |-> ET_tostring(sanitized_root[1])]

\* Sanitizer.sanitize_svg_string: [exc, val], exc the exception that escapes
sanitize_svg_string(s, pol) ==
  IF IsBlank(s) THEN [exc |-> "none", val |-> EmptyString]
  ELSE LET r == SanitizeTry(s, pol)
       IN  IF r.exc # "none" THEN [exc |-> "none", val |-> s] ELSE r

----------------------------------------------------------------------------
\* Input documents

Digits == <<"1", "2", "3", "4", "5", "6", "7", "8">>

\* an attribute no policy of the model prohibits; its value numbers the
\* nodes of a generated tree in document order
LabelName == Plain("data-n")
Label(k) == <<LabelName, <<Digits[k]>>>>

\* tags of the generated trees: allowed, disallowed, allowed and namespaced
StructTags == {Plain("g"), Plain("script"), QName("", SVG_NS, "rect")}

RECURSIVE AncestorsOrSelf(_, _)
AncestorsOrSelf(par, k) ==
  IF k = 1 THEN {1} ELSE {k} \cup AncestorsOrSelf(par, par[k])

\* The ordered trees of n nodes numbered in document order, each given by the
\* parent of every node but the first: node i hangs under node i - 1 or under
\* one of its ancestors.
ParentMaps(n) ==
  { par \in [2..n -> 1..(n - 1)] :
      \A i \in 2..n : par[i] \in AncestorsOrSelf(par, i - 1) }

RECURSIVE BuildTree(_, _, _, _)
BuildTree(par, tags, n, i) ==
  LET kids == { j \in 2..n : par[j] = i }
      Ordered(S) == LET RECURSIVE Asc(_)
                        Asc(R) == IF R = {} THEN <<>>
                                  ELSE LET m == CHOOSE x \in R : \A y \in R : x <= y
                                       IN  <<m>> \o Asc(R \ {m})
                    IN  Asc(S)
      order == Ordered(kids)
  IN  Node(tags[i], <<Label(i)>>, "",
           [k \in 1..Len(order) |-> BuildTree(par, tags, n, order[k])])

\* the labelled trees of exactly n nodes
TreesOf(n) ==
  { BuildTree(par, tags, n, 1) : par \in ParentMaps(n), tags \in [1..n -> StructTags] }

\* d is a well-formed document of at most MaxNodes labelled nodes
IsStructDoc(d) ==
  \E n \in 1..MaxNodes : \E par \in ParentMaps(n) : \E tags \in [1..n -> StructTags] :
    d = XmlDoc(BuildTree(par, tags, n, 1))

\* the attributes that vary on one node
AttrPool ==
  << <<Plain("id"), <<"k1">>>>,
     <<QName("o", OTHER_NS, "id"), <<"k2">>>>,
     <<QName("xlink", XLINK_NS, "href"), <<"#", "a">>>>,
     <<Plain("href"), <<"#", "b">>>>,
     <<Plain("style"), <<"fill:red">>>>,
     <<Plain("class"), <<"c">>>>,
     <<Plain("filter"), <<"url(#", "f", ")">>>>,
     <<Plain("fill"), <<"red">>>> >>

RECURSIVE IncreasingSeqs(_, _)
\* the strictly increasing sequences of at most k numbers of lo..Len(AttrPool)
IncreasingSeqs(k, lo) ==
  IF k = 0 THEN {<<>>}
  ELSE {<<>>} \cup UNION { { <<i>> \o r : r \in IncreasingSeqs(k - 1, i + 1) } :
                             i \in lo..Len(AttrPool) }

AttrLists == { [j \in 1..Len(is) |-> AttrPool[is[j]]] : is \in IncreasingSeqs(MaxAttrs, 1) }

FocusTags ==
  {Plain("circle"), QName("", SVG_NS, "linearGradient"), Plain("radialGradient"),
   Plain("pattern"), QName("o", OTHER_NS, "stop"), Plain("g")}

SvgRoot(children) == Node(QName("", SVG_NS, "svg"), <<Label(1)>>, "", children)

\* where the node whose attributes vary sits: as the root, under the root,
\* under defs, or two groups deep
Contexts == {"root", "child", "defs", "groups"}

InContext(c, n) ==
  CASE c = "root" -> n
    [] c = "child" -> SvgRoot(<<n>>)
    [] c = "defs" -> SvgRoot(<<Node(Plain("defs"), <<>>, "", <<n>>)>>)
    [] c = "groups" ->
         SvgRoot(<<Node(Plain("g"), <<>>, "",
                        <<Node(QName("", SVG_NS, "g"), <<>>, "", <<n>>)>>)>>)

AttrDocs ==
  { XmlDoc(InContext(c, Node(t, <<Label(2)>> \o a, "", <<>>))) :
      c \in Contexts, t \in FocusTags, a \in AttrLists }

\* strings that differ in what surrounds the markup
SmallTrees == TreesOf(1) \cup TreesOf(2)

TextDocs ==
  { Doc(l, p, k, NilNode) : l \in 0..1, p \in {"none", "ok", "open"},
                            k \in {"blank", "malformed"} }
  \cup { Doc(l, p, "xml", t) : l \in 0..1, p \in {"none", "ok", "open"},
                               t \in SmallTrees }

\* the policies a Sanitizer is constructed with
NoHrefPolicy == Policy(ALLOWED_SVG_TAGS, PROHIBITED_SVG_ATTRIBUTES \ {"href"})
CustomPolicy == Policy({"svg", "g", "circle", "text"}, {"style"})
Policies == {DefaultPolicy, NoHrefPolicy, CustomPolicy}

----------------------------------------------------------------------------
\* Sanitizer.sanitize_svg_string applied to a string, and again to its result

\* no Element
NilElement == Node(<<>>, <<>>, "", <<>>)

\* the generator is not in use
GenIdle ==
  /\ scene_description = [background_color |-> <<>>, definitions |-> <<>>, elements |-> <<>>]
  /\ gen_pc = "idle"
  /\ calls = <<>>
  /\ deepest = 0
  /\ emitted = 0
  /\ svg_root = NilElement

MainIdle ==
  /\ main_pc = "idle"
  /\ raw_svg_content = EmptyString
  /\ sanitized_svg_content = EmptyString
  /\ optimized_svg_content = EmptyString
  /\ optimizer_arg = EmptyString
  /\ output_file = <<>>
  /\ stages = <<>>

\* the compliance check and the optimizer are not in use
OptIdle ==
  /\ max_size_bytes = 0
  /\ results = [is_valid |-> TRUE, issues |-> <<>>]
  /\ SCOUR_AVAILABLE = FALSE
  /\ tiers = <<>>

SanInit ==
  /\ pc = "start"
  /\ \/ policy = DefaultPolicy /\ IsStructDoc(input)
     \/ policy = DefaultPolicy /\ input \in TextDocs
     \/ policy \in Policies /\ input \in AttrDocs
  /\ out1 = EmptyString
  /\ out2 = EmptyString
  /\ exc = "none"
  /\ MainIdle
  /\ GenIdle
  /\ OptIdle

SanitizeCall ==
  /\ pc = "start"
  /\ LET r == sanitize_svg_string(input, policy)
     IN  /\ out1' = r.val
         /\ exc' = r.exc
  /\ pc' = "once"
  /\ UNCHANGED <<policy, input, out2, mvars, ovars, gvars>>

SanitizeAgain ==
  /\ pc = "once"
  /\ exc = "none"
  /\ LET r == sanitize_svg_string(out1, policy)
     IN  /\ out2' = r.val
         /\ exc' = r.exc
  /\ pc' = "twice"
  /\ UNCHANGED <<policy, input, out1, mvars, ovars, gvars>>

SanNext == SanitizeCall \/ SanitizeAgain

SanSpec == SanInit /\ [][SanNext]_vars

----------------------------------------------------------------------------
\* cli.main, steps 4 to 7.  The generator's output is taken to be any string
\* of the input sets; the optimizer either returns after its first or after
\* its second pass, or raises.

FuncIdle ==
  /\ pc = "idle"
  /\ policy = DefaultPolicy
  /\ input = EmptyString
  /\ out1 = EmptyString
  /\ out2 = EmptyString
  /\ exc = "none"

MainInit ==
  /\ FuncIdle
  /\ OptIdle
  /\ GenIdle
  /\ main_pc = "generation"
  /\ raw_svg_content = EmptyString
  /\ sanitized_svg_content = EmptyString
  /\ optimized_svg_content = EmptyString
  /\ optimizer_arg = EmptyString
  /\ output_file = <<>>
  /\ stages = <<>>

\* lines 116-125: the generator returns a string, or it raises and main
\* returns without going on
MainGenerate ==
  /\ main_pc = "generation"
  /\ stages' = Append(stages, "generation")
  /\ \/ /\ \/ IsStructDoc(raw_svg_content')
           \/ raw_svg_content' \in TextDocs
        /\ main_pc' = "sanitization"
     \/ /\ raw_svg_content' = raw_svg_content
        /\ main_pc' = "returned"
  /\ UNCHANGED <<fvars, ovars, gvars, sanitized_svg_content, optimized_svg_content,
                 optimizer_arg, output_file>>

\* lines 127-136: Sanitizer() with the default policy
MainSanitize ==
  /\ main_pc = "sanitization"
  /\ stages' = Append(stages, "sanitization")
  /\ LET r == sanitize_svg_string(raw_svg_content, DefaultPolicy)
     IN  sanitized_svg_content' = IF r.exc = "none" THEN r.val ELSE raw_svg_content
  /\ main_pc' = "optimization"
  /\ UNCHANGED <<fvars, ovars, gvars, raw_svg_content, optimized_svg_content,
                 optimizer_arg, output_file>>

\* What the built-in optimization passes do to the part of a string this
\* model carries.  _apply_fallback_optimization: minify_svg ends with strip(),
\* so leading whitespace goes and a whitespace-only string becomes empty.
FallbackShape(s) ==
  IF IsBlank(s) THEN EmptyString ELSE [s EXCEPT !.lead = 0]

\* _apply_aggressive_optimization without Scour: the same, and a complete
\* XML declaration is removed
AggressiveShape(s) ==
  LET m == FallbackShape(s)
  IN  IF m.prolog = "ok" THEN [m EXCEPT !.prolog = "none"] ELSE m

\* Optimizer.optimize_svg_string on the fallback path; `tier` says whether the
\* size after the first pass exceeded MAX_SVG_SIZE_BYTES
OptimizeShape(s, tier) ==
  IF s = EmptyString THEN EmptyString
  ELSE IF tier = "standard" THEN FallbackShape(s)
  ELSE AggressiveShape(FallbackShape(s))

\* lines 138-148: the optimizer is called with the sanitized string; when it
\* raises, the sanitized string is the output
MainOptimize ==
  /\ main_pc = "optimization"
  /\ stages' = Append(stages, "optimization")
  /\ optimizer_arg' = sanitized_svg_content
  /\ \E outcome \in {"standard", "aggressive", "raised"} :
       optimized_svg_content' =
         IF outcome = "raised"
           THEN sanitized_svg_content
           ELSE OptimizeShape(sanitized_svg_content, outcome)
  /\ main_pc' = "output"
  /\ UNCHANGED <<fvars, ovars, gvars, raw_svg_content, sanitized_svg_content, output_file>>

\* lines 151-157: the file is written, or open/write raises IOError, which is
\* logged
MainWrite ==
  /\ main_pc = "output"
  /\ stages' = Append(stages, "output")
  /\ \E written \in BOOLEAN :
       output_file' = IF written THEN <<optimized_svg_content>> ELSE <<>>
  /\ main_pc' = "done"
  /\ UNCHANGED <<fvars, ovars, gvars, raw_svg_content, sanitized_svg_content,
                 optimized_svg_content, optimizer_arg>>

MainNext == MainGenerate \/ MainSanitize \/ MainOptimize \/ MainWrite

MainSpec == MainInit /\ [][MainNext]_vars

----------------------------------------------------------------------------
\* utils/compliance.py: ComplianceUtils.remove_unused_defs.  lxml keeps the
\* prefixes of the text, so the tree is the written tree; XPath name tests
\* compare namespace and local name.

\* element.get(name): <<>> for None, <<value>> otherwise
Get(n, u, l) ==
  LET hits == { i \in 1..Len(n.attrib) : n.attrib[i][1].u = u /\ n.attrib[i][1].l = l }
  IN  IF hits = {} THEN <<>> ELSE <<n.attrib[CHOOSE i \in hits : TRUE][2]>>

\* svg:defs with svg bound to http://www.w3.org/2000/svg
IsSvgDefs(n) == n.tag.u = SVG_NS /\ n.tag.l = "defs"

RECURSIVE Descendants(_)
\* .//* : the elements below n
Descendants(n) ==
  UNION { {n.children[i]} \cup Descendants(n.children[i]) : i \in 1..Len(n.children) }

\* lines 46-58
DefinedIds(root) ==
  LET defs_elements == { d \in NodeSet(root) : IsSvgDefs(d) }
      with_id == { e \in UNION { Descendants(d) : d \in defs_elements } :
                     Get(e, NoNs, "id") # <<>> }
  IN  { Get(e, NoNs, "id")[1] : e \in with_id }

\* re.search(r'url\(#([^)]+)\)', value): <<>> or <<the first identifier>>
UrlSearch(v) ==
  LET hits == { i \in 1..Len(v) : /\ v[i] = "url(#"
                                  /\ i + 2 <= Len(v)
                                  /\ v[i + 1] # ")"
                                  /\ v[i + 2] = ")" }
  IN  IF hits = {} THEN <<>>
      ELSE <<<<v[(CHOOSE i \in hits : \A j \in hits : i <= j) + 1]>>>>

ref_attrs == {"fill", "stroke", "filter", "clip-path", "mask"}

\* lines 69-78: the identifiers found in the url(#..) attributes of one element
UrlIdsOf(n) ==
  { UrlSearch(Get(n, NoNs, a)[1])[1] :
      a \in { b \in ref_attrs : /\ Get(n, NoNs, b) # <<>>
                                /\ HasToken(Get(n, NoNs, b)[1], "url(#")
                                /\ UrlSearch(Get(n, NoNs, b)[1]) # <<>> } }

\* lines 81-84: the identifier found in the href of one element
HrefIdsOf(n) ==
  LET has_href == \E i \in 1..Len(n.attrib) : n.attrib[i][1].l = "href"
      plain == Get(n, NoNs, "href")
      xlink == Get(n, XLINK_NS, "href")
      href == IF plain # <<>> /\ plain[1] # <<>> THEN plain[1]
              ELSE IF xlink # <<>> THEN xlink[1] ELSE <<>>
  IN  IF has_href /\ href # <<>> /\ href[1] = "#" THEN {Tail(href)} ELSE {}

\* lines 66-84
UsedIds(root) == UNION { UrlIdsOf(n) \cup HrefIdsOf(n) : n \in NodeSet(root) }

RECURSIVE RemoveUnused(_, _, _)
RECURSIVE RemoveUnusedAll(_, _, _)
\* lines 97-103: every element below a defs whose id is unused is taken out
\* of its parent, with all it contains
RemoveUnused(n, unused_ids, under_defs) ==
  [n EXCEPT !.children = RemoveUnusedAll(n.children, unused_ids, under_defs \/ IsSvgDefs(n))]

RemoveUnusedAll(children, unused_ids, under_defs) ==
  IF children = <<>> THEN <<>>
  ELSE LET c == Head(children)
           id == Get(c, NoNs, "id")
       IN  (IF under_defs /\ id # <<>> /\ id[1] \in unused_ids
              THEN <<>>
              ELSE <<RemoveUnused(c, unused_ids, under_defs)>>)
           \o RemoveUnusedAll(Tail(children), unused_ids, under_defs)

\* lxml_etree.fromstring(svg_str.encode('utf-8'), parser)
lxml_fromstring(s) ==
  IF s.kind # "xml" \/ s.prolog = "open" \/ (s.prolog = "ok" /\ s.lead > 0)
    THEN <<"XMLSyntaxError">>
    ELSE <<"ok", s.root>>

\* lxml_etree.tostring(tree, encoding='utf-8', xml_declaration=True)
lxml_tostring(root) == Doc(0, "ok", "xml", root)

\* ComplianceUtils.remove_unused_defs: [exc, val]
remove_unused_defs(svg_str) ==
  LET parsed == lxml_fromstring(svg_str)
  IN  IF parsed[1] # "ok" THEN [exc |-> "none", val |-> svg_str]
      ELSE LET tree == parsed[2]
               defs_elements == { d \in NodeSet(tree) : IsSvgDefs(d) }
               defined_ids == DefinedIds(tree)
               unused_ids == defined_ids \ UsedIds(tree)
           IN  IF defs_elements = {} THEN [exc |-> "none", val |-> svg_str]
               ELSE IF defined_ids = {} THEN [exc |-> "none", val |-> svg_str]
               ELSE IF unused_ids = {} THEN [exc |-> "none", val |-> svg_str]
               ELSE [exc |-> "none",
                     val |-> lxml_tostring(RemoveUnused(tree, unused_ids, FALSE))]

----------------------------------------------------------------------------
\* Documents with definitions

\* largest number of elements with an id under defs
MaxDefs == 2
\* largest number of elements after defs
MaxUses == 1

Ids == <<"g1", "p1", "g2", "p2">>
DefTags == <<"linearGradient", "pattern", "radialGradient", "linearGradient">>

\* what an element points to: nothing, or definition j through a paint
\* attribute or through xlink:href
RefChoices(nd) ==
  {<<"none", 0>>} \cup { <<k, j>> : k \in {"fill", "href"}, j \in 1..nd }

RefAttrs(r) ==
  CASE r[1] = "none" -> <<>>
    [] r[1] = "fill" -> <<<<Plain("fill"), <<"url(#", Ids[r[2]], ")">>>>>>
    [] r[1] = "href" -> <<<<QName("xlink", XLINK_NS, "href"), <<"#", Ids[r[2]]>>>>>>

RECURSIVE BuildDefs(_, _, _, _, _)
\* node 1 is defs; node k + 1 is the k-th element with an id
BuildDefs(par, refs, ns, n, i) ==
  LET kids == { j \in 2..n : par[j] = i }
      RECURSIVE Asc(_)
      Asc(R) == IF R = {} THEN <<>>
                ELSE LET m == CHOOSE x \in R : \A y \in R : x <= y
                     IN  <<BuildDefs(par, refs, ns, n, m)>> \o Asc(R \ {m})
  IN  IF i = 1
        THEN Node(QName("", ns, "defs"), <<>>, "", Asc(kids))
        ELSE Node(QName("", ns, DefTags[i - 1]),
                  <<<<Plain("id"), <<Ids[i - 1]>>>>>> \o RefAttrs(refs[i - 1]),
                  "", Asc(kids))

UseNode(ns, r) == Node(QName("", ns, "rect"), RefAttrs(r), "", <<>>)

\* d is <svg><defs>..</defs> uses..</svg> with nd elements under defs
IsDefsDoc(d, ns, prolog) ==
  \E nd \in 0..MaxDefs : \E par \in ParentMaps(nd + 1) :
    \E refs \in [1..nd -> RefChoices(nd)] :
      \E nu \in 0..MaxUses : \E uses \in [1..nu -> RefChoices(nd) \ {<<"none", 0>>}] :
        d = Doc(0, prolog, "xml",
                Node(QName("", ns, "svg"), <<>>, "",
                     <<BuildDefs(par, refs, ns, nd + 1, 1)>>
                       \o [k \in 1..nu |-> UseNode(ns, uses[k])]))

----------------------------------------------------------------------------
\* remove_unused_defs applied to a string, and again to its result

PruneInit ==
  /\ pc = "start"
  /\ policy = DefaultPolicy
  /\ \/ IsDefsDoc(input, SVG_NS, "none")
     \/ \E ns \in {SVG_NS, NoNs} : \E p \in {"none", "ok"} :
          /\ IsDefsDoc(input, ns, p)
          /\ Len(input.root.children[1].children) <= 1
     \/ input \in TextDocs
  /\ out1 = EmptyString
  /\ out2 = EmptyString
  /\ exc = "none"
  /\ MainIdle
  /\ GenIdle
  /\ OptIdle

PruneCall ==
  /\ pc = "start"
  /\ LET r == remove_unused_defs(input)
     IN  /\ out1' = r.val
         /\ exc' = r.exc
  /\ pc' = "once"
  /\ UNCHANGED <<policy, input, out2, mvars, ovars, gvars>>

PruneAgain ==
  /\ pc = "once"
  /\ exc = "none"
  /\ LET r == remove_unused_defs(out1)
     IN  /\ out2' = r.val
         /\ exc' = r.exc
  /\ pc' = "twice"
  /\ UNCHANGED <<policy, input, out1, mvars, ovars, gvars>>

PruneNext == PruneCall \/ PruneAgain

PruneSpec == PruneInit /\ [][PruneNext]_vars

----------------------------------------------------------------------------
\* Texts.  The compliance check and the optimizer work on the characters of
\* a string, with substring tests and regular expressions.  Here a text is a
\* sequence of tokens, each a piece of the string; a text is cut so that every
\* literal the code looks for begins and ends between two tokens, and every
\* white-space character, quote, digit, sign and dot is a token of its own.

Q == "\""

\* a run of RunLen letters Z (close-path commands in path data), and the
\* same in lower case
Run == "Z*"
RunLow == "z*"
RunLen == 10186

\* a run of DigitRunLen digits 9: a literal too large for a float
DigitRun == "9*"
DigitRunLen == 400

Width(t) ==
  IF t \in {Run, RunLow} THEN RunLen
  ELSE IF t = DigitRun THEN DigitRunLen
  ELSE Len(t)

\* F of the value of x, with x evaluated once
Once(x, F(_)) == CHOOSE r \in { F(v) : v \in {x} } : TRUE

RECURSIVE SizeBetween(_, _, _)
\* the bytes of s[i..j]
SizeBetween(s, i, j) ==
  IF i > j THEN 0
  ELSE IF i = j THEN Width(s[i])
  ELSE SizeBetween(s, i, (i + j) \div 2) + SizeBetween(s, ((i + j) \div 2) + 1, j)

\* len(s.encode('utf-8')); every character of the model is one byte
Size(s) == Once(s, LAMBDA t : SizeBetween(t, 1, Len(t)))

\* s[i:].startswith(lit)
StartsAt(s, i, lit) ==
  /\ i + Len(lit) - 1 <= Len(s)
  /\ \A k \in 1..Len(lit) : s[i + k - 1] = lit[k]

\* lit in s
Contains(s, lit) == \E i \in 1..Len(s) : StartsAt(s, i, lit)

\* [^...]* from i on: the index after the last token of the run that starts
\* at i and stops before the first token of `stops`
StopAt(s, i, stops) ==
  CHOOSE j \in i..(Len(s) + 1) :
    /\ \A k \in i..(j - 1) : s[k] \notin stops
    /\ j = Len(s) + 1 \/ s[j] \in stops

\* [...]* from i on: the index after the run of tokens of `class`
RunEnd(s, i, class) ==
  CHOOSE j \in i..(Len(s) + 1) :
    /\ \A k \in i..(j - 1) : s[k] \in class
    /\ j = Len(s) + 1 \/ s[j] \notin class

\* \s
Spaces == {" ", "\n", "\t"}

\* the index of the first occurrence of lit at or after i, 0 if there is none
Find(s, i, lit) ==
  LET hits == { j \in i..Len(s) : StartsAt(s, j, lit) }
  IN  IF hits = {} THEN 0 ELSE CHOOSE j \in hits : \A k \in hits : j <= k

\* re.sub(pattern, repl, s): MatchEnd(s, i) is the index after the match of
\* the pattern that starts at i, or i when there is none; the matches are
\* taken from left to right and do not overlap.  g[i, j] is the scan from i
\* until it has reached or passed j, as <<output, next index>>, cut in halves.
ReSub(s, MatchEnd(_, _), Repl(_)) ==
  LET Scan(t) ==
        LET g[i \in 1..Len(t), j \in 2..(Len(t) + 1)] ==
              IF j <= i + 1
                THEN Once(MatchEnd(t, i),
                          LAMBDA e : IF e > i THEN <<Repl(SubSeq(t, i, e - 1)), e>>
                                              ELSE <<<<t[i]>>, i + 1>>)
                ELSE Once(g[i, (i + j) \div 2],
                          LAMBDA left :
                            IF left[2] >= j THEN left
                            ELSE Once(g[left[2], j],
                                      LAMBDA right : <<left[1] \o right[1], right[2]>>))
        IN  IF t = <<>> THEN <<>> ELSE g[1, Len(t) + 1][1]
  IN  Once(s, Scan)

\* a pattern that is \s+ and then one of the literals of `lits`
EndSpacesThen(s, i, lits) ==
  LET a == RunEnd(s, i, Spaces)
  IN  IF a > i /\ \E l \in lits : StartsAt(s, a, l)
        THEN a + Len(CHOOSE l \in lits : StartsAt(s, a, l))
        ELSE i

\* ... and then "[^"]+" : an opening quote at q, a value of one character or
\* more, the closing quote
EndQuoted(s, i, q) ==
  LET e == StopAt(s, q + 1, {Q})
  IN  IF q > i /\ q <= Len(s) /\ s[q] = Q /\ e > q + 1 /\ e <= Len(s)
        THEN e + 1 ELSE i

Erase(m) == <<>>

\* str.lower() on the tokens that hold upper-case letters
LowerTok(t) ==
  CASE t = "SCRIPT" -> "script"
    [] t = "Transform" -> "transform"
    [] t = "Motion" -> "motion"
    [] t = ".JPG" -> ".jpg"
    [] t = "M" -> "m"
    [] t = "L" -> "l"
    [] t = "Z" -> "z"
    [] t = "UTF-8" -> "utf-8"
    [] t = Run -> RunLow
    [] OTHER -> t

lower(s) == [i \in 1..Len(s) |-> LowerTok(s[i])]

----------------------------------------------------------------------------
\* utils/sanitize.py: the string passes of the Sanitizer

EditorPrefixes == {"inkscape", "sodipodi", "dc", "cc", "rdf"}

\* the tokens of the model that are made of [a-z\-] only
LowerNames == {"label", "role", "nodetypes", "href", "version", "opacity"}

\* <metadata>.*?</metadata> with DOTALL
EndMetadata(s, i) ==
  LET close == IF StartsAt(s, i, <<"<", "metadata", ">">>)
                 THEN Find(s, i + 3, <<"<", "/", "metadata", ">">>) ELSE 0
  IN  IF close > 0 THEN close + 4 ELSE i

\* <!--.*?--> with DOTALL
EndComment(s, i) ==
  LET close == IF StartsAt(s, i, <<"<", "!--">>)
                 THEN Find(s, i + 2, <<"--", ">">>) ELSE 0
  IN  IF close > 0 THEN close + 2 ELSE i

\* \s+xmlns:(inkscape|sodipodi|dc|cc|rdf)="[^"]+"
EndEditorNamespace(s, i) ==
  LET a == RunEnd(s, i, Spaces)
  IN  IF /\ a > i
         /\ StartsAt(s, a, <<"xmlns", ":">>)
         /\ a + 3 <= Len(s)
         /\ s[a + 2] \in EditorPrefixes
         /\ s[a + 3] = "="
        THEN EndQuoted(s, i, a + 4)
        ELSE i

\* \s+(inkscape|sodipodi|dc|cc|rdf):[a-z\-]+="[^"]+"
EndEditorAttribute(s, i) ==
  LET a == RunEnd(s, i, Spaces)
      b == RunEnd(s, a + 2, LowerNames)
  IN  IF /\ a > i
         /\ a + 1 <= Len(s)
         /\ s[a] \in EditorPrefixes
         /\ s[a + 1] = ":"
         /\ b > a + 2
         /\ b <= Len(s)
         /\ s[b] = "="
        THEN EndQuoted(s, i, b + 1)
        ELSE i

\* Sanitizer.remove_metadata
remove_metadata(svg_str) ==
  LET s1 == ReSub(svg_str, EndMetadata, Erase)
      s2 == ReSub(s1, EndComment, Erase)
      s3 == ReSub(s2, EndEditorNamespace, Erase)
  IN  ReSub(s3, EndEditorAttribute, Erase)

\* \s+
EndSpaces(s, i) == RunEnd(s, i, Spaces)

\* >\s+<
EndBetweenTags(s, i) ==
  LET a == RunEnd(s, i + 1, Spaces)
  IN  IF s[i] = ">" /\ a > i + 1 /\ a <= Len(s) /\ s[a] = "<" THEN a + 1 ELSE i

\* "\s+
EndAfterQuote(s, i) ==
  LET a == RunEnd(s, i + 1, Spaces)
  IN  IF s[i] = Q /\ a > i + 1 THEN a ELSE i

\* \s+="
EndBeforeEquals(s, i) == EndSpacesThen(s, i, { <<"=", Q>> })

\* \s+version="[^"]+"
EndVersion(s, i) ==
  LET a == EndSpacesThen(s, i, { <<"version", "=">> })
  IN  IF a > i THEN EndQuoted(s, i, a) ELSE i

OneSpace(m) == <<" ">>
TagToTag(m) == <<">", "<">>
QuoteOnly(m) == <<Q>>
EqualsQuote(m) == <<"=", Q>>

\* str.strip()
strip(s) ==
  LET Kept(t) == { i \in 1..Len(t) : t[i] \notin Spaces }
      Strip(t) ==
        Once(Kept(t),
             LAMBDA kept :
               IF kept = {} THEN <<>>
               ELSE SubSeq(t, CHOOSE i \in kept : \A j \in kept : i <= j,
                              CHOOSE i \in kept : \A j \in kept : i >= j))
  IN  Once(s, Strip)

\* Sanitizer.minify_svg; the substitution of stroke-width="1" by itself
\* changes nothing
minify_svg(svg_str) ==
  LET s1 == ReSub(svg_str, EndSpaces, OneSpace)
      s2 == ReSub(s1, EndBetweenTags, TagToTag)
      s3 == ReSub(s2, EndAfterQuote, QuoteOnly)
      s4 == ReSub(s3, EndBeforeEquals, EqualsQuote)
      s5 == ReSub(s4, EndVersion, Erase)
  IN  strip(s5)

DigitChars == <<"0", "1", "2", "3", "4", "5", "6", "7", "8", "9">>

DigitSet == { DigitChars[k] : k \in 1..10 }

\* [0-9]; the run of nines is made of digits
NumDigits == DigitSet \cup {DigitRun}

DigitVal(c) == (CHOOSE k \in 1..10 : DigitChars[k] = c) - 1

RECURSIVE IntOf(_)
\* int(digits), 0 for no digit
IntOf(ds) ==
  IF ds = <<>> THEN 0 ELSE IntOf(SubSeq(ds, 1, Len(ds) - 1)) * 10 + DigitVal(ds[Len(ds)])

RECURSIVE StrOfNat(_)
\* str(n) for n >= 0
StrOfNat(n) ==
  IF n < 10 THEN <<DigitChars[n + 1]>>
  ELSE StrOfNat(n \div 10) \o <<DigitChars[(n % 10) + 1]>>

\* what escapes replace_number when int() is given an infinity
OverflowError == "OverflowError!"

\* [-+]?[0-9]*\.?[0-9]+
EndNumber(s, i) ==
  LET a == IF s[i] \in {"-", "+"} THEN i + 1 ELSE i
      b == RunEnd(s, a, NumDigits)
  IN  IF b <= Len(s) /\ s[b] = "." /\ RunEnd(s, b + 1, NumDigits) > b + 1
        THEN RunEnd(s, b + 1, NumDigits)
        ELSE IF b > a THEN b ELSE i

\* round() of a value that the float holds as it is written: the decimal
\* `head` followed by the digits `rest` goes to the nearest `head`, a tie to
\* the even one
RoundExact(head, rest) ==
  LET above == /\ rest # <<>>
               /\ \/ DigitVal(rest[1]) > 5
                  \/ /\ DigitVal(rest[1]) = 5
                     /\ \E k \in 2..Len(rest) : DigitVal(rest[k]) > 0
      half == /\ rest # <<>>
              /\ DigitVal(rest[1]) = 5
              /\ \A k \in 2..Len(rest) : DigitVal(rest[k]) = 0
  IN  IF above \/ (half /\ head % 2 = 1) THEN head + 1 ELSE head

\* replace_number: float(literal), round(num, precision), and str of the int
\* or of the float.  precision is 0 or 1.  round() rounds the binary float
\* correctly; for the literals of the model (at most two decimals, and no tie
\* other than .5, .25 and .75, which floats hold exactly) that is the exact
\* decimal rounding with ties to even.  The run of nines stands only among
\* the integer digits.
replace_number(m, precision) ==
  LET neg == m[1] = "-"
      body == IF m[1] \in {"-", "+"} THEN Tail(m) ELSE m
      dot == IF \E k \in 1..Len(body) : body[k] = "."
               THEN CHOOSE k \in 1..Len(body) : body[k] = "." ELSE Len(body) + 1
      whole == SubSeq(body, 1, dot - 1)
      frac == SubSeq(body, dot + 1, Len(body))
      t == IF precision = 0
             THEN RoundExact(IntOf(whole), frac)
             ELSE RoundExact(IntOf(whole) * 10 + (IF frac = <<>> THEN 0 ELSE DigitVal(frac[1])),
                             IF frac = <<>> THEN <<>> ELSE Tail(frac))
      sign == IF neg THEN <<"-">> ELSE <<>>
  IN  IF \E k \in 1..Len(whole) : whole[k] = DigitRun THEN <<OverflowError>>
      ELSE IF precision = 0
        THEN (IF t = 0 THEN <<>> ELSE sign) \o StrOfNat(t)
      ELSE IF t % 10 = 0
        THEN (IF t = 0 THEN <<>> ELSE sign) \o StrOfNat(t \div 10)
      ELSE sign \o StrOfNat(t \div 10) \o <<".", DigitChars[(t % 10) + 1]>>

\* d="([^"]+)"
EndPathData(s, i) ==
  IF StartsAt(s, i, <<"d", "=">>) THEN EndQuoted(s, i, i + 2) ELSE i

\* round_numbers
round_numbers(m, precision) ==
  LET path_data == SubSeq(m, 4, Len(m) - 1)
      RoundOne(n) == replace_number(n, precision)
  IN  <<"d", "=", Q>> \o ReSub(path_data, EndNumber, RoundOne) \o <<Q>>

\* Sanitizer.simplify_paths; the text holds OverflowError where the call
\* raises it
simplify_paths(svg_str, precision) ==
  LET RoundIn(m) == round_numbers(m, precision)
  IN  ReSub(svg_str, EndPathData, RoundIn)

----------------------------------------------------------------------------
\* utils/optimizer.py

default_attrs ==
  << <<"opacity", "=", Q, "1", Q>>,
     <<"fill-", "opacity", "=", Q, "1", Q>>,
     <<"stroke-", "opacity", "=", Q, "1", Q>>,
     <<"stroke-", "linecap", "=", Q, "butt", Q>>,
     <<"stroke-", "linejoin", "=", Q, "miter", Q>> >>

RECURSIVE StripDefaults(_, _)
\* lines 104-105, from the k-th pattern of default_attrs on
StripDefaults(result, k) ==
  IF k > Len(default_attrs) THEN result
  ELSE LET EndDefault(s, i) == EndSpacesThen(s, i, {default_attrs[k]})
       IN  StripDefaults(ReSub(result, EndDefault, Erase), k + 1)

\* a call that returned val, and a call that exc escaped
Returned(val) == [exc |-> "none", val |-> val]
Raised(exc_name) == [exc |-> exc_name, val |-> <<>>]

\* Optimizer._apply_fallback_optimization
_apply_fallback_optimization(svg_string) ==
  LET r1 == remove_metadata(svg_string)
      r2 == minify_svg(r1)
  IN  Once(simplify_paths(r2, 1),
           LAMBDA r3 : IF Contains(r3, <<OverflowError>>) THEN Raised("OverflowError")
                       ELSE Returned(StripDefaults(r3, 1)))

\* <\?xml[^>]+\?>
EndXmlDeclaration(s, i) ==
  LET j == StopAt(s, i + 3, {">"})
  IN  IF /\ StartsAt(s, i, <<"<", "?", "xml">>)
         /\ j <= Len(s)
         /\ j - 1 >= i + 4
         /\ s[j - 1] = "?"
        THEN j + 1 ELSE i

HexChars ==
  <<"0", "1", "2", "3", "4", "5", "6", "7", "8", "9", "a", "b", "c", "d", "e", "f">>

RECURSIVE HexOfNat(_)
HexOfNat(n) ==
  IF n < 16 THEN <<HexChars[n + 1]>>
  ELSE HexOfNat(n \div 16) \o <<HexChars[(n % 16) + 1]>>

\* '{:02x}'.format(n)
Hex02(n) == IF n < 16 THEN <<"0">> \o HexOfNat(n) ELSE HexOfNat(n)

\* rgb\((\d+),\s*(\d+),\s*(\d+)\) : the indices after the three numbers and
\* before the second and third, <<>> when the pattern does not match at i
RgbGroups(s, i) ==
  LET e1 == RunEnd(s, i + 2, DigitSet)
      b2 == RunEnd(s, e1 + 1, Spaces)
      e2 == RunEnd(s, b2, DigitSet)
      b3 == RunEnd(s, e2 + 1, Spaces)
      e3 == RunEnd(s, b3, DigitSet)
  IN  IF /\ StartsAt(s, i, <<"rgb", "(">>)
         /\ e1 > i + 2 /\ e1 <= Len(s) /\ s[e1] = ","
         /\ e2 > b2 /\ e2 <= Len(s) /\ s[e2] = ","
         /\ e3 > b3 /\ e3 <= Len(s) /\ s[e3] = ")"
        THEN <<i + 2, e1, b2, e2, b3, e3>>
        ELSE <<>>

EndRgb(s, i) == IF RgbGroups(s, i) = <<>> THEN i ELSE RgbGroups(s, i)[6] + 1

\* '#{:02x}{:02x}{:02x}'.format(int(m.group(1)), int(m.group(2)), int(m.group(3)))
RgbToHex(m) ==
  LET g == RgbGroups(m, 1)
  IN  <<"#">> \o Hex02(IntOf(SubSeq(m, g[1], g[2] - 1)))
              \o Hex02(IntOf(SubSeq(m, g[3], g[4] - 1)))
              \o Hex02(IntOf(SubSeq(m, g[5], g[6] - 1)))

\* lines 146-165: the built-in aggressive pass
AggressiveFallback(svg_string) ==
  LET r1 == remove_metadata(svg_string)
      r2 == minify_svg(r1)
      Rest(r3) ==
        LET r4 == ReSub(r3, EndSpaces, OneSpace)
            r5 == ReSub(r4, EndBetweenTags, TagToTag)
            r6 == ReSub(r5, EndXmlDeclaration, Erase)
        IN  IF Contains(r3, <<OverflowError>>) THEN Raised("OverflowError")
            ELSE Returned(ReSub(r6, EndRgb, RgbToHex))
  IN  Once(simplify_paths(r2, 0), Rest)

\* What a call of scourString does is the collaborator's affair: it raises,
\* returns None, returns its argument as it is, or returns a small document.
ScourOutcomes == {"raise", "None", "same", "small"}

SmallSvg == <<"<", "svg", "/", ">">>

\* <<"raise">>, <<"None">> or <<"ok", text>>
scourString(svg_string, outcome) ==
  CASE outcome = "same" -> <<"ok", svg_string>>
    [] outcome = "small" -> <<"ok", SmallSvg>>
    [] OTHER -> <<outcome>>

\* Optimizer._apply_scour
_apply_scour(svg_string, available, outcome) ==
  IF ~available THEN svg_string
  ELSE LET optimized_svg == scourString(svg_string, outcome)
       IN  IF optimized_svg[1] = "ok" THEN optimized_svg[2] ELSE svg_string

\* Optimizer._apply_aggressive_optimization
_apply_aggressive_optimization(svg_string, available, outcome) ==
  LET result == scourString(svg_string, outcome)
  IN  IF available /\ result[1] = "ok"
        THEN Returned(result[2])
        ELSE AggressiveFallback(svg_string)

\* line 193 with the budget itself taken as too large
AtOrOverBudget(current_size_bytes) == current_size_bytes >= MAX_SVG_SIZE_BYTES

\* lines 193 and 203: current_size_bytes > MAX_SVG_SIZE_BYTES
OverBudget(current_size_bytes) == current_size_bytes > MAX_SVG_SIZE_BYTES

\* line 199 with the result of the aggressive pass dropped
KeepCurrent(current_svg, aggressive) == current_svg

\* line 199: current_svg = self._apply_aggressive_optimization(current_svg)
Reassign(current_svg, aggressive) == aggressive

\* one pass as run: its tier, what scourString did in it ("absent" when
\* scour is not installed), its argument, and what it raised or returned
Pass(tier, available, outcome, arg, res) ==
  [tier |-> tier, scour |-> IF available THEN outcome ELSE "absent",
   arg |-> arg, exc |-> res.exc, out |-> res.val]

\* Optimizer.optimize_svg_string: [exc, val, tiers], tiers the passes run;
\* o1 and o2 are what scourString does in the first and in the second pass
optimize_svg_string(svg_string, available, o1, o2) ==
  IF svg_string = <<>> THEN [exc |-> "none", val |-> <<>>, tiers |-> <<>>]
  ELSE
    LET AfterStandard(standard) ==
          LET first == <<Pass("STANDARD", available, o1, svg_string, standard)>>
              AfterAggressive(aggressive) ==
                LET both == Append(first, Pass("AGGRESSIVE", available, o2,
                                               standard.val, aggressive))
                IN  IF aggressive.exc # "none"
                      THEN [exc |-> aggressive.exc, val |-> <<>>, tiers |-> both]
                      ELSE [exc |-> "none",
                            val |-> Reassign(standard.val, aggressive.val),
                            tiers |-> both]
          IN  IF standard.exc # "none"
                THEN [exc |-> standard.exc, val |-> <<>>, tiers |-> first]
              ELSE IF ~OverBudget(Size(standard.val))
                THEN [exc |-> "none", val |-> standard.val, tiers |-> first]
              ELSE Once(_apply_aggressive_optimization(standard.val, available, o2),
                        AfterAggressive)
    IN  Once(IF available
               THEN Returned(_apply_scour(svg_string, available, o1))
               ELSE _apply_fallback_optimization(svg_string),
             AfterStandard)

----------------------------------------------------------------------------
\* utils/compliance.py: ComplianceUtils.check_competition_compliance

\* a failed check that appends its issue and leaves is_valid as it was
FailKeepingValid(res, issue) == [res EXCEPT !.issues = Append(res.issues, issue)]

\* results["is_valid"] = False; results["issues"].append(issue)
Fail(res, issue) == [is_valid |-> FALSE, issues |-> Append(res.issues, issue)]

animation_tags ==
  << <<"<", "animate">>, <<"<", "animate", "transform">>,
     <<"<", "animate", "motion">>, <<"<", "set">> >>

\* line 136
SizeCheckFails(svg_str, max) == Size(svg_str) > max

\* line 143
ScriptCheckFails(svg_str) == Contains(lower(svg_str), <<"<", "script">>)

\* lines 149-156
ExternalCheckFails(svg_str) ==
  /\ Contains(svg_str, <<"xlink", ":", "href">>)
  /\ \/ Contains(svg_str, <<"data", ":">>)
     \/ Contains(svg_str, <<"http", ":">>)
     \/ Contains(svg_str, <<"http", "s", ":">>)
     \/ Contains(lower(svg_str), <<".jpg">>)
     \/ Contains(lower(svg_str), <<".png">>)
     \/ Contains(lower(svg_str), <<".jpeg">>)

\* line 163
AnimationCheckFails(svg_str, tag) == Contains(lower(svg_str), tag)

RECURSIVE AnimationLoop(_, _, _)
\* lines 162-165, from the k-th tag of animation_tags on
AnimationLoop(svg_str, res, k) ==
  IF k > Len(animation_tags) THEN res
  ELSE AnimationLoop(svg_str,
                     IF AnimationCheckFails(svg_str, animation_tags[k])
                       THEN Fail(res, <<"animation", animation_tags[k]>>)
                       ELSE res,
                     k + 1)

\* the dict returned
check_competition_compliance(svg_str, max) ==
  LET r0 == [is_valid |-> TRUE, issues |-> <<>>]
      r1 == IF SizeCheckFails(svg_str, max) THEN Fail(r0, <<"size">>) ELSE r0
      r2 == IF ScriptCheckFails(svg_str) THEN Fail(r1, <<"script">>) ELSE r1
      r3 == IF ExternalCheckFails(svg_str) THEN Fail(r2, <<"external">>) ELSE r2
  IN  AnimationLoop(svg_str, r3, 1)

----------------------------------------------------------------------------
\* Texts to check

Attr(name, value) == <<" ">> \o name \o <<"=", Q>> \o value \o <<Q>>

Elem(tag, attrs) == <<"<">> \o tag \o attrs \o <<"/", ">">>

\* largest number of elements inside the root of a text
MaxPieces == 2

CheckPieces ==
  << Elem(<<"script">>, <<>>),
     Elem(<<"SCRIPT">>, <<>>),
     Elem(<<"animate">>, <<>>),
     Elem(<<"animate", "Transform">>, <<>>),
     Elem(<<"animate", "Motion">>, <<>>),
     Elem(<<"set">>, <<>>),
     Elem(<<"image">>, Attr(<<"xlink", ":", "href">>, <<"http", ":", "//e/a", ".png">>)),
     Elem(<<"image">>, Attr(<<"xlink", ":", "href">>, <<"a", ".JPG">>)),
     Elem(<<"image">>, Attr(<<"href">>, <<"http", "s", ":", "//e/a">>)),
     Elem(<<"image">>, Attr(<<"href">>, <<"data", ":", "image/png;base64,AA==">>)),
     Elem(<<"use">>, Attr(<<"xlink", ":", "href">>, <<"#", "a">>)),
     Elem(<<"use">>, Attr(<<"href">>, <<"#", "a">>)),
     Elem(<<"circle">>, Attr(<<"r">>, <<"5">>)) >>

\* the root's opening tag, bare or with the declarations a serializer writes
CheckHeads ==
  { <<"<", "svg", ">">>,
    <<"<", "svg">> \o Attr(<<"xmlns">>, SVG_NS) \o <<">">>,
    <<"<", "svg">> \o Attr(<<"xmlns">>, SVG_NS)
                  \o Attr(<<"xmlns", ":", "xlink">>, XLINK_NS) \o <<">">> }

SvgClose == <<"<", "/", "svg", ">">>

\* t is a root with at most MaxPieces of the elements of pool inside
IsTextOf(t, heads, pool) ==
  \E h \in heads : \E n \in 0..MaxPieces : \E ps \in [1..n -> 1..Len(pool)] :
    t = h \o ConcatAll([k \in 1..n |-> pool[ps[k]]]) \o SvgClose

----------------------------------------------------------------------------
\* check_competition_compliance applied to a text

CheckInit ==
  /\ pc = "start"
  /\ policy = DefaultPolicy
  /\ IsTextOf(input, CheckHeads, CheckPieces)
  /\ \E d \in {-1, 0, 1} :
       max_size_bytes \in {MAX_SVG_SIZE_BYTES, Size(input) + d}
  /\ results = [is_valid |-> TRUE, issues |-> <<>>]
  /\ out1 = EmptyString
  /\ out2 = EmptyString
  /\ exc = "none"
  /\ MainIdle
  /\ GenIdle
  /\ SCOUR_AVAILABLE = FALSE
  /\ tiers = <<>>

CheckCall ==
  /\ pc = "start"
  /\ results' = check_competition_compliance(input, max_size_bytes)
  /\ pc' = "once"
  /\ UNCHANGED <<policy, input, out1, out2, exc, mvars, max_size_bytes,
                 SCOUR_AVAILABLE, tiers, gvars>>

CheckNext == CheckCall

CheckSpec == CheckInit /\ [][CheckNext]_vars

----------------------------------------------------------------------------
\* Texts to optimize

\* largest number of letters Z after the run in the padding path
MaxPad == 6

PathOf(path_data, attrs) ==
  <<"<", "path">> \o Attr(<<"d">>, path_data) \o attrs \o <<"/", ">">>

OptPieces ==
  << PathOf(<<"M", ".", "5", " ", "-", ".", "5">>, <<>>),
     PathOf(<<"M", "1", "2", ".", "0", " ", "1", "2", ".", "3", "4", " ", "0", ".", "2", "5">>,
            <<>>),
     Elem(<<"circle">>, Attr(<<"cx">>, <<"1", "2", ".", "3", "4">>)
                          \o Attr(<<"r">>, <<"1", "2", ".", "0">>)),
     Elem(<<"g">>, Attr(<<"opacity">>, <<"1">>)
                     \o Attr(<<"fill">>, <<"rgb", "(", "2", "5", "5", ",", " ", "0", ",",
                                           "1", "0", ")">>)),
     Elem(<<"g">>, Attr(<<"i", "d">>, <<"a", "1", ".", "5", "0">>)),
     <<"<", "metadata", ">", "x", "<", "/", "metadata", ">">>,
     <<"<", "!--", "c", "--", ">">>,
     <<"\n", " ", " ">>,
     PathOf(<<"M", DigitRun>>, <<>>),
     Elem(<<"g">>, Attr(<<"inkscape", ":", "label">>, <<"x">>)),
     PathOf(<<"M", "2", ".", "5", " ", "0">>,
            Attr(<<"stroke">>, <<"black">>) \o Attr(<<"fill">>, <<"none">>)),
     Elem(<<"g">>, Attr(<<"fill">>, <<"red">>) \o Attr(<<"opacity">>, <<"1">>)) >>

OptHeads ==
  { <<"<", "svg", ">">>,
    <<"<", "?", "xml">> \o Attr(<<"version">>, <<"1.0">>)
                        \o Attr(<<"encoding">>, <<"UTF-8">>)
      \o <<"?", ">", "\n", "<", "svg">> \o Attr(<<"version">>, <<"1.1">>) \o <<">">> }

\* a path that ends in the run and k - 1 more letters Z; nothing for k = 0
Pad(k) ==
  IF k = 0 THEN <<>>
  ELSE PathOf(<<"M", "0", " ", "0", Run>> \o [j \in 1..(k - 1) |-> "Z"], <<>>)

\* t is a root with at most n of the elements of OptPieces and the padding
\* path of k inside
IsOptText(t, n, k) ==
  \E h \in OptHeads : \E m \in 0..n : \E ps \in [1..m -> 1..Len(OptPieces)] :
    t = h \o ConcatAll([j \in 1..m |-> OptPieces[ps[j]]]) \o Pad(k) \o SvgClose

----------------------------------------------------------------------------
\* Optimizer.optimize_svg_string applied to a text

OptInit ==
  /\ pc = "start"
  /\ policy = DefaultPolicy
  /\ \/ SCOUR_AVAILABLE = FALSE /\ IsOptText(input, MaxPieces, 0)
     \/ /\ SCOUR_AVAILABLE \in BOOLEAN
        /\ \E k \in 0..MaxPad : IsOptText(input, 1, k)
     \/ SCOUR_AVAILABLE \in BOOLEAN /\ input \in { <<>>, <<" ">>, <<"\n", " ">> }
  /\ out1 = <<>>
  /\ out2 = EmptyString
  /\ exc = "none"
  /\ MainIdle
  /\ GenIdle
  /\ max_size_bytes = 0
  /\ results = [is_valid |-> TRUE, issues |-> <<>>]
  /\ tiers = <<>>

\* the call; what scourString does is drawn only where scour is installed
OptimizeCall ==
  /\ pc = "start"
  /\ \E o1, o2 \in IF SCOUR_AVAILABLE THEN ScourOutcomes ELSE {"None"} :
       \E r \in {optimize_svg_string(input, SCOUR_AVAILABLE, o1, o2)} :
         /\ out1' = r.val
         /\ exc' = r.exc
         /\ tiers' = r.tiers
  /\ pc' = "once"
  /\ UNCHANGED <<policy, input, out2, mvars, max_size_bytes, results, SCOUR_AVAILABLE,
                 gvars>>

OptNext == OptimizeCall

OptSpec == OptInit /\ [][OptNext]_vars

----------------------------------------------------------------------------
\* svg/generator.py: SVGGenerator.  An Element has its tag and its attribute
\* names as given to Element(), a dict is a record, a key a dict may lack is
\* <<>> when absent and <<value>> when present.

\* the value None
None == <<"None">>

\* an element description: the keys type, id, fill, d and children
Desc(type, id, fill, d, children) ==
  [type |-> type, id |-> id, fill |-> fill, d |-> d, children |-> children]

\* a definition: the keys type, id, stops and children
Def(type, id, stops, children) ==
  [type |-> type, id |-> id, stops |-> stops, children |-> children]

Scene(background_color, definitions, elements) ==
  [background_color |-> background_color, definitions |-> definitions,
   elements |-> elements]

\* line 88 with no cap
NeverTooDeep(depth) == FALSE

\* line 88: depth > MAX_RECURSION_DEPTH_GENERATION
TooDeep(depth) == depth > MAX_RECURSION_DEPTH_GENERATION

\* line 128 with every type taken as supported
NothingUnsupported(el_type) == FALSE

\* line 128: the else branch of the chain of tests on el_type
Unsupported(el_type) ==
  el_type \notin {"rect", "circle", "polygon", "polyline", "path", "g"}

\* lines 97-103: the id, its default made of the depth and the parent's tag,
\* then the common attributes the description has
CommonAttrs(parent_tag, element_desc, depth) ==
  << <<<<"id">>, IF element_desc.id = <<>>
                   THEN <<"shape_", DigitChars[depth + 1], "_">> \o parent_tag
                   ELSE element_desc.id[1]>> >>
    \o (IF element_desc.fill = <<>> THEN <<>>
        ELSE << <<<<"fill">>, element_desc.fill[1]>> >>)

RECURSIVE add_element(_, _, _)
RECURSIVE add_children(_, _, _)

\* the calls of _add_element for the descriptions of a list, in order: what
\* was raised, or the nodes added to the parent
add_children(parent_tag, descs, depth) ==
  IF descs = <<>> THEN Returned(<<>>)
  ELSE Once(add_element(parent_tag, Head(descs), depth),
            LAMBDA first :
              IF first.exc # "none" THEN first
              ELSE Once(add_children(parent_tag, Tail(descs), depth),
                        LAMBDA rest :
                          IF rest.exc # "none" THEN rest
                          ELSE Returned(first.val \o rest.val)))

\* SVGGenerator._add_element: what was raised, or the node added to the
\* parent, if any.  len(path_d.split()) raises AttributeError on None.
add_element(parent_tag, element_desc, depth) ==
  IF TooDeep(depth) THEN Returned(<<>>)
  ELSE IF element_desc.type = "" THEN Returned(<<>>)
  ELSE IF element_desc.type = "path"
    THEN IF element_desc.d = <<None>> THEN Raised("AttributeError")
         ELSE Returned(<<Node(<<"path">>,
                              CommonAttrs(parent_tag, element_desc, depth)
                                \o << <<<<"d">>, IF element_desc.d = <<>> THEN <<>>
                                                 ELSE element_desc.d[1]>> >>,
                              "", <<>>)>>)
  ELSE IF element_desc.type = "g"
    THEN Once(add_children(<<"g">>, element_desc.children, depth + 1),
              LAMBDA kids :
                IF kids.exc # "none" THEN kids
                ELSE Returned(<<Node(<<"g">>, CommonAttrs(parent_tag, element_desc, depth),
                                     "", kids.val)>>))
  ELSE IF Unsupported(element_desc.type) THEN Returned(<<>>)
  ELSE Returned(<<Node(<<element_desc.type>>,
                       CommonAttrs(parent_tag, element_desc, depth), "", <<>>)>>)

\* lines 44-50: the background rectangle, if any
Background(scene_desc) ==
  IF /\ scene_desc.background_color # <<>>
     /\ scene_desc.background_color[1] # <<>>
     /\ lower(scene_desc.background_color[1]) \notin { <<"none">>, <<"transparent">> }
    THEN <<Node(<<"rect">>,
                << <<<<"width">>, <<"100%">>>>, <<<<"height">>, <<"100%">>>>,
                   <<<<"fill">>, scene_desc.background_color[1]>> >>,
                "", <<>>)>>
    ELSE <<>>

\* lines 34-41: the root with the default width and height
SvgElement(children) ==
  Node(<<"svg">>,
       << <<<<"width">>, <<"800">>>>, <<<<"height">>, <<"600">>>>,
          <<<<"viewBox">>, <<"0 0 800 600">>>>, <<<<"xmlns">>, SVG_NS>> >>,
       "", children)

\* the definitions _add_defs does not pass over (lines 61-64) and makes a
\* node of
IsBuiltDef(definition) ==
  /\ definition.type # ""
  /\ definition.id # <<>>
  /\ definition.type \in {"linearGradient", "radialGradient", "pattern"}

RECURSIVE add_definitions(_)
\* lines 60-84: the children of defs, or what was raised
add_definitions(definitions) ==
  IF definitions = <<>> THEN Returned(<<>>)
  ELSE LET definition == Head(definitions)
           Then(node) ==
             Once(add_definitions(Tail(definitions)),
                  LAMBDA rest : IF rest.exc # "none" THEN rest
                                ELSE Returned(node \o rest.val))
       IN  IF ~IsBuiltDef(definition) THEN Then(<<>>)
           ELSE IF definition.type = "pattern"
             THEN Once(add_children(<<"pattern">>, definition.children, 0),
                       LAMBDA kids :
                         IF kids.exc # "none" THEN kids
                         ELSE Then(<<Node(<<"pattern">>,
                                          << <<<<"id">>, definition.id[1]>> >>,
                                          "", kids.val)>>))
             ELSE Then(<<Node(<<definition.type>>,
                              << <<<<"id">>, definition.id[1]>> >>, "",
                              [k \in 1..Len(definition.stops) |->
                                 Node(<<"stop">>, definition.stops[k], "", <<>>)])>>)

\* SVGGenerator._add_defs: no node, or the defs node
add_defs(scene_desc) ==
  IF scene_desc.definitions = <<>> THEN Returned(<<>>)
  ELSE Once(add_definitions(scene_desc.definitions),
            LAMBDA kids : IF kids.exc # "none" THEN kids
                          ELSE Returned(<<Node(<<"defs">>, <<>>, "", kids.val)>>))

\* the root's children with the defs node put first
DefsFirst(background, defs, elements) == defs \o background \o elements

\* the root's children in the order the code appends them: lines 46, 59, 158
RootChildren(background, defs, elements) == background \o defs \o elements

\* SVGGenerator.generate as far as the tree: what was raised, or the root
generate(scene_desc) ==
  Once(add_defs(scene_desc),
       LAMBDA defs :
         IF defs.exc # "none" THEN defs
         ELSE Once(add_children(<<"svg">>, scene_desc.elements, 0),
                   LAMBDA elements :
                     IF elements.exc # "none" THEN elements
                     ELSE Returned(SvgElement(RootChildren(Background(scene_desc),
                                                           defs.val, elements.val)))))

RECURSIVE AsWritten(_, _)
\* the text of an Element as a reader takes it: an attribute xmlns puts the
\* element and what is below it in that namespace
AsWritten(e, ns) ==
  LET at == { i \in 1..Len(e.attrib) : e.attrib[i][1] = <<"xmlns">> }
      declared == IF at = {} THEN ns ELSE e.attrib[CHOOSE i \in at : TRUE][2]
      others == SelectSeq(e.attrib, LAMBDA a : a[1] # <<"xmlns">>)
  IN  Node(QName("", declared, e.tag[1]),
           [i \in 1..Len(others) |-> <<Plain(others[i][1][1]), others[i][2]>>],
           e.text,
           [i \in 1..Len(e.children) |-> AsWritten(e.children[i], declared)])

\* SVGGenerator._element_to_str
_element_to_str(element) == XmlDoc(AsWritten(element, NoNs))

----------------------------------------------------------------------------
\* Scene descriptions

\* the deepest nesting of groups in a scene
MaxNest == 5
\* the most elements at the top of a scene
MaxElems == 2

Leaf(type) == Desc(type, <<>>, <<>>, <<>>, <<>>)
Group(children) == Desc("g", <<>>, <<>>, <<>>, children)

\* a path whose d is None
BadPath == Desc("path", <<>>, <<>>, <<None>>, <<>>)

Leaves ==
  { Desc("rect", <<<<"r1">>>>, <<<<"red">>>>, <<>>, <<>>), Leaf("circle"),
    Leaf("polygon"), Leaf("polyline"),
    Desc("path", <<>>, <<>>, <<<<"M0 0">>>>, <<>>), Leaf("path"),
    Leaf("ellipse"), Leaf(""), BadPath }

RECURSIVE Nest(_, _)
\* the descriptions `inner` below k groups, one in the other
Nest(k, inner) == IF k = 0 THEN inner ELSE <<Group(Nest(k - 1, inner))>>

Mixed == <<Leaf("rect"), Leaf("ellipse"), Leaf("circle")>>

Inners == { <<>>, Mixed, <<Leaf(""), Leaf("polygon")>> } \cup { <<l>> : l \in Leaves }

Items == Leaves \cup { Nest(k, inner)[1] : k \in 1..MaxNest, inner \in Inners }

FewItems ==
  { Leaf("rect"), Leaf("polyline"), Leaf("ellipse"), Leaf(""), BadPath,
    Nest(1, Mixed)[1], Nest(MaxNest - 1, <<BadPath>>)[1], Nest(MaxNest, <<Leaf("circle")>>)[1] }

Colours == { <<>>, <<<<"none">>>>, <<<<"transparent">>>>, <<<<"red">>>> }

DefLists ==
  { <<>>,
    <<Def("linearGradient", <<<<"a">>>>, << << <<<<"offset">>, <<"0">>>> >> >>, <<>>)>>,
    <<Def("linearGradient", <<>>, <<>>, <<>>)>>,
    <<Def("filter", <<<<"f">>>>, <<>>, <<>>),
      Def("pattern", <<<<"p">>>>, <<>>, <<Leaf("rect"), Leaf("ellipse")>>)>> }

IsScene(sc) ==
  \/ \E c \in Colours : \E ds \in DefLists : \E m \in 0..1 : \E es \in [1..m -> Items] :
       sc = Scene(c, ds, es)
  \/ \E m \in 2..MaxElems : \E es \in [1..m -> FewItems] : sc = Scene(<<>>, <<>>, es)

----------------------------------------------------------------------------
\* SVGGenerator.generate called on a scene; the calls of _add_element are
\* made one by one

\* the calls for a list of descriptions at one depth
Frames(descs, depth) == [i \in 1..Len(descs) |-> <<descs[i], depth>>]

\* the calls _add_defs makes for the children of the patterns
PatternFrames(definitions) ==
  ConcatAll([k \in 1..Len(definitions) |->
               IF IsBuiltDef(definitions[k]) /\ definitions[k].type = "pattern"
                 THEN Frames(definitions[k].children, 0) ELSE <<>>])

GenInit ==
  /\ FuncIdle
  /\ MainIdle
  /\ OptIdle
  /\ IsScene(scene_description)
  /\ gen_pc = "start"
  /\ calls = <<>>
  /\ deepest = 0
  /\ emitted = 0
  /\ svg_root = NilElement

\* lines 147-158: the root and the defs are made, the elements are to do
GenerateCall ==
  /\ gen_pc = "start"
  /\ calls' = PatternFrames(scene_description.definitions)
                \o Frames(scene_description.elements, 0)
  /\ gen_pc' = "adding"
  /\ UNCHANGED <<fvars, mvars, ovars, scene_description, deepest, emitted, svg_root>>

\* one call of _add_element, up to the calls it makes for the children
AddElement ==
  /\ gen_pc = "adding"
  /\ calls # <<>>
  /\ LET element_desc == Head(calls)[1]
         depth == Head(calls)[2]
         el_type == element_desc.type
     IN  /\ deepest' = IF depth > deepest THEN depth ELSE deepest
         /\ IF TooDeep(depth) \/ el_type = ""
              THEN /\ calls' = Tail(calls)
                   /\ UNCHANGED <<gen_pc, emitted>>
            ELSE IF el_type = "path" /\ element_desc.d = <<None>>
              THEN /\ gen_pc' = "raised"
                   /\ calls' = <<>>
                   /\ UNCHANGED emitted
            ELSE IF el_type = "g"
              THEN /\ calls' = Frames(element_desc.children, depth + 1) \o Tail(calls)
                   /\ emitted' = emitted + 1
                   /\ UNCHANGED gen_pc
            ELSE /\ calls' = Tail(calls)
                 /\ emitted' = IF el_type # "path" /\ Unsupported(el_type)
                                 THEN emitted ELSE emitted + 1
                 /\ UNCHANGED gen_pc
  /\ UNCHANGED <<fvars, mvars, ovars, scene_description, svg_root>>

\* lines 160-165: every call is made, the tree is handed back
GenerateReturn ==
  /\ gen_pc = "adding"
  /\ calls = <<>>
  /\ svg_root' = generate(scene_description).val
  /\ gen_pc' = "returned"
  /\ UNCHANGED <<fvars, mvars, ovars, scene_description, calls, deepest, emitted>>

GenNext == GenerateCall \/ AddElement \/ GenerateReturn

GenSpec == GenInit /\ [][GenNext]_vars

----------------------------------------------------------------------------
\* The two stages that have a bound of their own, each run to its end: the
\* calls of the builder and the call of the optimizer.  Both run in the one
\* thread of main with nothing to wait for, so a step that can be taken is
\* taken.

TermInit == GenInit \/ OptInit

TermNext == GenNext \/ OptNext

\* The call of the optimizer is due.  optimize_svg_string gives a result for
\* every string, so OptimizeCall is enabled exactly where this action is, and
\* no other step leaves pc = "start": weak fairness of the one is weak
\* fairness of the other.
OptimizeDue ==
  /\ pc = "start"
  /\ pc' = "once"
  /\ UNCHANGED <<policy, input, out1, out2, exc, mvars, ovars, gvars>>

TermSpec ==
  TermInit /\ [][TermNext]_vars /\ WF_vars(GenNext) /\ WF_vars(OptimizeDue)

----------------------------------------------------------------------------
\* Vocabulary of the properties

AttrNames(n) == { n.attrib[i][1] : i \in 1..Len(n.attrib) }

HasLabel(n) == \E i \in 1..Len(n.attrib) : n.attrib[i][1].l = LabelName.l

LabelOf(n) == n.attrib[CHOOSE i \in 1..Len(n.attrib) : n.attrib[i][1].l = LabelName.l][2]

\* a string that holds a tree: markup that an XML parser accepts
HoldsTree(s) ==
  /\ s.kind = "xml"
  /\ s.prolog # "open"
  /\ ~(s.prolog = "ok" /\ s.lead > 0)

RootAllowed(s, pol) == s.root.tag.l \in pol.allowed_tags

\* an attribute as a name without its prefix, and its value
Unprefixed(a) == <<a[1].u, a[1].l, a[2]>>

LabelOrNone(n) == IF HasLabel(n) THEN LabelOf(n) ELSE <<>>

RECURSIVE Chains(_, _)
\* for every node, its label and the local tag names from the root down to it
Chains(n, above) ==
  LET here == above \cup {n.tag.l}
  IN  {<<LabelOrNone(n), here>>}
        \cup UNION { Chains(n.children[i], here) : i \in 1..Len(n.children) }

\* the labels of the nodes none of whose ancestors-or-self has a disallowed tag
Survivors(root, pol) ==
  { c[1] : c \in { d \in Chains(root, {}) : d[1] # <<>> /\ d[2] \subseteq pol.allowed_tags } }

AllLabelled(root) == \A n \in NodeSet(root) : HasLabel(n)

Labels(root) == { LabelOf(n) : n \in { m \in NodeSet(root) : HasLabel(m) } }

RECURSIVE Edges(_)
\* <<label of the parent, label of the child>> of a tree whose nodes are labelled
Edges(n) ==
  { <<LabelOf(n), LabelOf(n.children[i])>> : i \in 1..Len(n.children) }
    \cup UNION { Edges(n.children[i]) : i \in 1..Len(n.children) }

RECURSIVE Preorder(_)
\* the labels in document order
Preorder(n) ==
  <<LabelOf(n)>> \o ConcatAll([i \in 1..Len(n.children) |-> Preorder(n.children[i])])

\* label, namespace and local name of every labelled node
TagsByLabel(root) ==
  { <<LabelOf(n), n.tag.u, n.tag.l>> : n \in { m \in NodeSet(root) : HasLabel(m) } }

Called == pc \in {"once", "twice"}

----------------------------------------------------------------------------
\* Properties of the Sanitizer

\* C1: when the input holds a tree whose root tag is allowed, every node of
\* the sanitized output has an allowed tag (namespace stripped) and carries no
\* attribute whose local name is prohibited, except id on a Definition-kind tag.
C1_AllowlistInvariant ==
  (Called /\ HoldsTree(input) /\ RootAllowed(input, policy)) =>
    \A n \in NodeSet(out1.root) :
      /\ n.tag.l \in policy.allowed_tags
      /\ \A a \in AttrNames(n) :
           a.l \in policy.prohibited_attrs_global =>
             (a.l = "id" /\ n.tag.l \in DefinitionKinds)

C1_Witness ==
  /\ pc = "once"
  /\ policy = DefaultPolicy
  /\ HoldsTree(input)
  /\ RootAllowed(input, policy)
  /\ \E n \in NodeSet(input.root) :
       /\ n.tag.l = "linearGradient"
       /\ {"id", "class"} \subseteq { a.l : a \in AttrNames(n) }
  /\ \E m \in NodeSet(out1.root) :
       /\ m.tag.l = "linearGradient"
       /\ "id" \in { a.l : a \in AttrNames(m) }

\* C2 (as claimed): sanitizing the sanitizer's output gives that output again,
\* for every input string.
C2_SanitizeIdempotent == pc = "twice" => out2 = out1

\* C3: sanitizing removes a node exactly when its tag or the tag of one of its
\* ancestors is disallowed; every other node stays, with its tag, under the
\* same parent and in the same document order.
C3_SubtreeRemoval ==
  (Called /\ HoldsTree(input) /\ AllLabelled(input.root)) =>
    IF RootAllowed(input, policy)
      THEN /\ AllLabelled(out1.root)
           /\ Labels(out1.root) = Survivors(input.root, policy)
           /\ Edges(out1.root) \subseteq Edges(input.root)
           /\ TagsByLabel(out1.root) \subseteq TagsByLabel(input.root)
           /\ LET Stays(l) == l \in Survivors(input.root, policy)
              IN  Preorder(out1.root) = SelectSeq(Preorder(input.root), Stays)
      ELSE /\ Survivors(input.root, policy) = {}
           /\ Labels(out1.root) = {}

\* a disallowed node two levels down with an allowed child and a later sibling
C3_Witness ==
  /\ pc = "once"
  /\ HoldsTree(input)
  /\ AllLabelled(input.root)
  /\ Edges(input.root) = {<<<<"1">>, <<"2">>>>, <<<<"2">>, <<"3">>>>,
                          <<<<"3">>, <<"4">>>>, <<<<"2">>, <<"5">>>>}
  /\ <<<<"3">>, NoNs, "script">> \in TagsByLabel(input.root)
  /\ <<<<"4">>, NoNs, "g">> \in TagsByLabel(input.root)
  /\ Preorder(out1.root) = <<<<"1">>, <<"2">>, <<"5">>>>

\* C4 (as claimed): no retained node keeps a namespaced href attribute,
\* whatever the policy and the tag.
C4_NamespacedHrefStripped ==
  (Called /\ HoldsTree(input) /\ RootAllowed(input, policy)) =>
    \A m \in NodeSet(out1.root) :
      \A a \in AttrNames(m) : ~(a.u # NoNs /\ a.l = "href")

\* C5: under a policy that prohibits id, every retained Definition-kind node
\* keeps its id attributes with their values wherever it sits, no other
\* retained node keeps an id, and every other prohibited attribute is stripped
\* from all retained nodes.
C5_IdExemption ==
  (Called /\ HoldsTree(input) /\ RootAllowed(input, policy)
          /\ "id" \in policy.prohibited_attrs_global) =>
    /\ \A n \in NodeSet(input.root) :
         (/\ HasLabel(n)
          /\ LabelOf(n) \in Survivors(input.root, policy)
          /\ n.tag.l \in DefinitionKinds) =>
           \E m \in NodeSet(out1.root) :
             /\ HasLabel(m)
             /\ LabelOf(m) = LabelOf(n)
             /\ { Unprefixed(n.attrib[i]) :
                    i \in { j \in 1..Len(n.attrib) : n.attrib[j][1].l = "id" } }
                  \subseteq { Unprefixed(m.attrib[i]) : i \in 1..Len(m.attrib) }
    /\ \A m \in NodeSet(out1.root) :
         /\ m.tag.l \notin DefinitionKinds =>
              \A a \in AttrNames(m) : a.l # "id"
         /\ \A a \in AttrNames(m) :
              a.l \notin policy.prohibited_attrs_global \ {"id"}

\* a pattern two groups deep, not under defs, with id and class
C5_Witness ==
  /\ pc = "once"
  /\ policy = DefaultPolicy
  /\ HoldsTree(input)
  /\ Len(input.root.children) = 1
  /\ input.root.children[1].tag.l = "g"
  /\ \E n \in NodeSet(input.root) :
       /\ n.tag.l = "pattern"
       /\ { a.l : a \in AttrNames(n) } = {"data-n", "id", "class"}
  /\ \E m \in NodeSet(out1.root) :
       /\ m.tag.l = "pattern"
       /\ { Unprefixed(m.attrib[i]) : i \in 1..Len(m.attrib) }
            = { <<NoNs, "data-n", <<"2">>>>, <<NoNs, "id", <<"k1">>>> }

\* C6 (as claimed): a string that holds no tree comes back unchanged and
\* nothing is raised.
C6_FailOpen ==
  (Called /\ pc = "once" /\ ~HoldsTree(input)) => (out1 = input /\ exc = "none")

----------------------------------------------------------------------------
\* Properties of remove_unused_defs

\* node m holds a url(#id) or a fragment href that names id
PointsTo(m, id) ==
  \E i \in 1..Len(m.attrib) :
    LET v == m.attrib[i][2]
    IN  \/ \E k \in 1..Len(v) :
             /\ v[k] = "url(#"
             /\ k + 2 <= Len(v)
             /\ v[k + 1] = id
             /\ v[k + 2] = ")"
        \/ m.attrib[i][1].l = "href" /\ v = <<"#", id>>

\* the elements with an id below a defs element
DeclaredBelowDefs(root) ==
  { e \in UNION { Descendants(d) : d \in { x \in NodeSet(root) : IsSvgDefs(x) } } :
      Get(e, NoNs, "id") # <<>> }

IdOf(e) == Get(e, NoNs, "id")[1][1]

IdsBelowDefs(root) == { IdOf(e) : e \in DeclaredBelowDefs(root) }

\* C8 (as claimed): after one run, every element with an id left under defs
\* is pointed to from somewhere in the output outside that element.
C8_RetainedDefsReferenced ==
  (pc = "once" /\ HoldsTree(input)) =>
    \A e \in DeclaredBelowDefs(out1.root) :
      \E m \in NodeSet(out1.root) \ NodeSet(e) : PointsTo(m, IdOf(e))

\* C9 (as claimed): after one run no reference of the output names a removed
\* definition: every definition referenced in the input is still there, and
\* every unreferenced one is gone.
C9_NoDanglingReference ==
  (pc = "once" /\ HoldsTree(input)) =>
    LET declared == IdsBelowDefs(input.root)
        referenced == { id \in declared :
                          \E m \in NodeSet(input.root) : PointsTo(m, id) }
        present == IdsBelowDefs(out1.root)
    IN  /\ \A id \in declared :
             (\E m \in NodeSet(out1.root) : PointsTo(m, id)) => id \in present
        /\ referenced \subseteq present
        /\ (declared \ referenced) \cap present = {}

\* C10 (as claimed): a second run returns the result of the first.
C10_PruneIdempotent == pc = "twice" => out2 = out1

----------------------------------------------------------------------------
\* Properties of check_competition_compliance

\* the names of the opening tags of a text, in lower case
TagNames(s) ==
  { lower(SubSeq(s, i + 1, StopAt(s, i + 1, {" ", "/", ">"}) - 1)) :
      i \in { k \in 1..Len(s) : s[k] = "<" /\ k < Len(s) /\ s[k + 1] # "/" } }

ScriptKinds == { <<"script">> }

AnimationKinds ==
  { <<"animate">>, <<"animate", "transform">>, <<"animate", "motion">>, <<"set">> }

\* <<name, value>> of every attribute written in a text
AttrsOf(s) ==
  { <<SubSeq(s, CHOOSE b \in 1..i : /\ \A k \in b..(i - 1) : s[k] # " "
                                    /\ b = 1 \/ s[b - 1] = " ",
             i - 1),
      SubSeq(s, i + 2, StopAt(s, i + 2, {Q}) - 1)>> :
      i \in { k \in 1..(Len(s) - 1) : s[k] = "=" /\ s[k + 1] = Q } }

IsNamespaceDeclaration(a) == a[1][1] = "xmlns"

\* the value names a resource outside the document or an embedded bitmap
IsExternal(value) ==
  \/ \E lit \in { <<"data", ":">>, <<"http", ":">>, <<"http", "s", ":">> } :
       Contains(value, lit)
  \/ \E ext \in {".jpg", ".png", ".jpeg"} : Contains(lower(value), <<ext>>)

HasExternalReference(s) ==
  \E a \in AttrsOf(s) : ~IsNamespaceDeclaration(a) /\ IsExternal(a[2])

\* C11 (as claimed): the report is valid exactly when the size is within the
\* budget, no tag is of a script or animation kind and no attribute value,
\* under whatever attribute name, names an external or embedded bitmap
\* resource; without such a value no external reference is reported.
C11_ValidIffCompliant ==
  pc = "once" =>
    /\ results.is_valid <=>
         /\ Size(input) <= max_size_bytes
         /\ TagNames(input) \cap (ScriptKinds \cup AnimationKinds) = {}
         /\ ~HasExternalReference(input)
    /\ ~HasExternalReference(input) =>
         \A k \in 1..Len(results.issues) : results.issues[k] # <<"external">>

\* the checks of one call that fail, each named as its issue
FailedChecks(svg_str, max) ==
  (IF SizeCheckFails(svg_str, max) THEN {<<"size">>} ELSE {})
    \cup (IF ScriptCheckFails(svg_str) THEN {<<"script">>} ELSE {})
    \cup (IF ExternalCheckFails(svg_str) THEN {<<"external">>} ELSE {})
    \cup { <<"animation", animation_tags[k]>> :
             k \in { j \in 1..Len(animation_tags) :
                       AnimationCheckFails(svg_str, animation_tags[j]) } }

\* C12: in the report of every call is_valid is true exactly when the issue
\* list is empty, every failed check has put exactly one issue on the list
\* and nothing else is on it, and the call leaves the checked text as it was.
C12_ReportConsistent ==
  [][pc' = "once" =>
       /\ results'.is_valid <=> (results'.issues = <<>>)
       /\ \A c \in FailedChecks(input, max_size_bytes) :
            Cardinality({ k \in 1..Len(results'.issues) : results'.issues[k] = c }) = 1
       /\ Len(results'.issues) = Cardinality(FailedChecks(input, max_size_bytes))
       /\ input' = input]_vars

\* a text over the budget with an animateTransform element: three issues
C12_Witness ==
  /\ pc = "once"
  /\ Size(input) > max_size_bytes
  /\ ~results.is_valid
  /\ Len(results.issues) = 3
  /\ results.issues[1] = <<"size">>
  /\ results.issues[3] = <<"animation", <<"<", "animate", "transform">>>>

----------------------------------------------------------------------------
\* Properties of Optimizer.optimize_svg_string

\* the passes run are STANDARD, or STANDARD and then AGGRESSIVE
TiersInOrder ==
  /\ Len(tiers) \in {1, 2}
  /\ tiers[1].tier = "STANDARD"
  /\ tiers[1].arg = input
  /\ Len(tiers) = 2 => tiers[2].tier = "AGGRESSIVE"

\* AGGRESSIVE ran exactly when the STANDARD output is over the budget, on
\* that output; a STANDARD output within the budget is what is returned
EscalatesOnSize ==
  tiers[1].exc = "none" =>
    /\ Len(tiers) = 2 <=> Size(tiers[1].out) > MAX_SVG_SIZE_BYTES
    /\ Len(tiers) = 2 => tiers[2].arg = tiers[1].out
    /\ Len(tiers) = 1 => exc = "none" /\ out1 = tiers[1].out

\* C13 (as claimed): for every input STANDARD runs first, on the input, and
\* AGGRESSIVE after it exactly when the STANDARD output is larger than 10240
\* bytes, on the STANDARD output; a STANDARD output within the budget is
\* returned as it is.
C13_TiersInOrder == pc = "once" => TiersInOrder /\ EscalatesOnSize

\* C13 (amended): that holds for every input but the empty string, for which
\* no tier runs and the empty string is returned.
C13_TiersInOrderNonEmpty ==
  pc = "once" =>
    IF input = <<>>
      THEN tiers = <<>> /\ exc = "none" /\ out1 = <<>>
      ELSE TiersInOrder /\ EscalatesOnSize

\* a STANDARD output of 10241 bytes that differs from the input, passed on
\* to AGGRESSIVE
C13_Witness ==
  /\ pc = "once"
  /\ Len(tiers) = 2
  /\ Size(tiers[1].out) = MAX_SVG_SIZE_BYTES + 1
  /\ tiers[1].out # input
  /\ tiers[2].arg = tiers[1].out

\* C14: when the AGGRESSIVE output is still over the budget the call raises
\* nothing and returns that output, which is not empty.
C14_FailedReturnsAggressive ==
  (/\ pc = "once"
   /\ Len(tiers) = 2
   /\ tiers[2].exc = "none"
   /\ Size(tiers[2].out) > MAX_SVG_SIZE_BYTES) =>
    /\ exc = "none"
    /\ out1 = tiers[2].out
    /\ out1 # <<>>

\* an AGGRESSIVE output over the budget that is neither the STANDARD output
\* nor the input
C14_Witness ==
  /\ pc = "once"
  /\ Len(tiers) = 2
  /\ Size(tiers[2].out) > MAX_SVG_SIZE_BYTES
  /\ tiers[2].out # tiers[1].out
  /\ tiers[1].out # input
  /\ out1 = tiers[2].out

\* what the caller of optimize_svg_string holds after the call: the returned
\* string and nothing beside it
Handed == [document |-> out1]

\* C15 (as claimed): the result handed back carries the document, the tier
\* reached and a budget-met flag, and the flag is false exactly when the
\* document is larger than the budget.
C15_ResultCarriesFlag ==
  (pc = "once" /\ exc = "none") =>
    /\ {"document", "tier", "budget_met"} \subseteq DOMAIN Handed
    /\ Handed.budget_met <=> Size(Handed.document) <= MAX_SVG_SIZE_BYTES

\* C16 (as claimed): when scour is installed and scourString raises or
\* returns None in the STANDARD pass, the output of that pass is the output
\* of the fallback optimization.
C16_FallbackWhenScourFails ==
  (/\ pc = "once"
   /\ tiers # <<>>
   /\ tiers[1].scour \in {"raise", "None"}) =>
    /\ tiers[1].exc = _apply_fallback_optimization(input).exc
    /\ tiers[1].out = _apply_fallback_optimization(input).val

\* C17 (as claimed): without scour the STANDARD output is no larger than the
\* input and the AGGRESSIVE output no larger than the STANDARD output.
C17_SizesNeverGrow ==
  (/\ pc = "once"
   /\ ~SCOUR_AVAILABLE
   /\ tiers # <<>>
   /\ tiers[1].exc = "none") =>
    /\ Size(tiers[1].out) <= Size(input)
    /\ (Len(tiers) = 2 /\ tiers[2].exc = "none") =>
         Size(tiers[2].out) <= Size(tiers[1].out)

\* the values of the attributes written in a text
AttrValues(s) ==
  { SubSeq(s, i + 2, StopAt(s, i + 2, {Q}) - 1) :
      i \in { k \in 1..(Len(s) - 1) : s[k] = "=" /\ s[k + 1] = Q } }

\* every numeric literal of the value is written as the rounding rule
\* writes it at precision p
RoundedTo(value, p) ==
  LET RoundOne(n) == replace_number(n, p)
  IN  ReSub(value, EndNumber, RoundOne) = value

\* C18 (as claimed): without scour every numeric literal of every attribute
\* value is in its rounded form, of precision 1 in the STANDARD output and
\* of precision 0 in the AGGRESSIVE output.
C18_AllLiteralsRounded ==
  (/\ pc = "once"
   /\ ~SCOUR_AVAILABLE
   /\ tiers # <<>>
   /\ tiers[1].exc = "none") =>
    /\ \A v \in AttrValues(tiers[1].out) : RoundedTo(v, 1)
    /\ (Len(tiers) = 2 /\ tiers[2].exc = "none") =>
         \A v \in AttrValues(tiers[2].out) : RoundedTo(v, 0)

----------------------------------------------------------------------------
\* Properties of cli.main

\* C7: when the root tag of the generated document is disallowed, the
\* sanitizer raises nothing and returns the fixed, non-empty placeholder
\* document, and main calls the optimizer with that placeholder.
C7_PlaceholderCarriedOn ==
  (HoldsTree(raw_svg_content) /\ ~RootAllowed(raw_svg_content, DefaultPolicy)) =>
    /\ main_pc \in {"optimization", "output", "done"} =>
         /\ sanitized_svg_content = ErrorSvg
         /\ sanitized_svg_content # raw_svg_content
         /\ ~IsBlank(sanitized_svg_content)
         /\ HoldsTree(sanitized_svg_content)
    /\ main_pc \in {"output", "done"} => optimizer_arg = ErrorSvg

C7_Witness ==
  /\ main_pc = "done"
  /\ HoldsTree(raw_svg_content)
  /\ ~RootAllowed(raw_svg_content, DefaultPolicy)
  /\ Len(raw_svg_content.root.children) > 0
  /\ optimizer_arg = ErrorSvg

\* C19 (as claimed): every run of main ends with an output file that exists
\* and is not empty, whichever stage failed.
C19_OutputAlwaysExists ==
  main_pc \in {"done", "returned"} =>
    /\ output_file # <<>>
    /\ ~IsBlank(output_file[1])

\* C20 (as claimed): by the time the optimizer has run, the stages run are
\* generation, sanitization, validation and optimization in that order, so
\* that a validation stage stands between the sanitizer and the optimizer.
C20_ValidatorBetween ==
  main_pc \in {"output", "done"} =>
    \E i, j, k, l \in 1..Len(stages) :
      /\ i < j /\ j < k /\ k < l
      /\ stages[i] = "generation"
      /\ stages[j] = "sanitization"
      /\ stages[k] = "validation"
      /\ stages[l] = "optimization"


----------------------------------------------------------------------------
\* Properties of the builder

\* the shape kinds _add_element has a branch for (lines 106-127)
SupportedKinds == {"rect", "circle", "polygon", "polyline", "path", "g"}

\* the tags of a sequence of nodes
TagsOf(nodes) == [i \in 1..Len(nodes) |-> nodes[i].tag[1]]

\* a background colour is given and is neither none nor transparent
HasBackground(scene_desc) ==
  /\ scene_desc.background_color # <<>>
  /\ scene_desc.background_color[1] \notin { <<"none">>, <<"transparent">> }

\* the types of the supported descriptions of a list, in the order of the list
SupportedTypes(descs) ==
  LET kept == SelectSeq(descs, LAMBDA e : e.type \in SupportedKinds)
  IN  [i \in 1..Len(kept) |-> kept[i].type]

\* C21: the tree generate builds has the svg container as root; its children
\* are the background rectangle (exactly when a colour is given that is not
\* none or transparent), then the defs subtree (exactly when definitions are
\* given), then one node for each supported description, in input order
C21_RootChildrenInOrder ==
  gen_pc = "returned" =>
    /\ svg_root.tag = <<"svg">>
    /\ TagsOf(svg_root.children)
         = (IF HasBackground(scene_description) THEN <<"rect">> ELSE <<>>)
             \o (IF scene_description.definitions # <<>> THEN <<"defs">> ELSE <<>>)
             \o SupportedTypes(scene_description.elements)
    /\ HasBackground(scene_description) =>
         svg_root.children[1].attrib[3] = <<<<"fill">>, scene_description.background_color[1]>>

\* a tree with a background, with definitions and with an element
C21_Witness ==
  /\ gen_pc = "returned"
  /\ HasBackground(scene_description)
  /\ scene_description.definitions # <<>>
  /\ Len(scene_description.elements) = 1
  /\ Len(svg_root.children) = 3

\* a tree with two elements at the top, both of them kept
C21_WitnessTwo ==
  /\ gen_pc = "returned"
  /\ Len(scene_description.elements) = 2
  /\ TagsOf(svg_root.children) = <<"polyline", "rect">>


RECURSIVE DescsAtDepth(_, _)
\* the descriptions at group-nesting depth k below a list of descriptions, in
\* document order
DescsAtDepth(descs, k) ==
  IF k = 0 THEN descs
  ELSE DescsAtDepth(ConcatAll([i \in 1..Len(descs) |->
                                 IF descs[i].type = "g" THEN descs[i].children
                                                        ELSE <<>>]), k - 1)

RECURSIVE NodesAtLevel(_, _)
\* the nodes k levels below a list of nodes, in document order
NodesAtLevel(nodes, k) ==
  IF k = 0 THEN nodes
  ELSE NodesAtLevel(ConcatAll([i \in 1..Len(nodes) |-> nodes[i].children]), k - 1)

\* the nodes of the tree made for the elements of the scene: the root's
\* children after the background and the defs
ElementNodes ==
  SubSeq(svg_root.children,
         (IF HasBackground(scene_description) THEN 1 ELSE 0)
           + (IF scene_description.definitions # <<>> THEN 1 ELSE 0) + 1,
         Len(svg_root.children))

\* a path whose d is None is among the descriptions at a depth up to k
RaisesWithin(descs, k) ==
  \E j \in 0..k : \E i \in 1..Len(DescsAtDepth(descs, j)) :
    DescsAtDepth(descs, j)[i] = BadPath

\* C22: no node is emitted at group-nesting depth greater than
\* MAX_RECURSION_DEPTH_GENERATION; at each depth up to the cap every supported
\* description is emitted; and generate raises only for a description that is
\* within the cap
C22_DepthCapped ==
  /\ gen_pc = "returned" =>
       \A k \in 0..(MaxNest + 1) :
         TagsOf(NodesAtLevel(ElementNodes, k))
           = IF k > MAX_RECURSION_DEPTH_GENERATION THEN <<>>
             ELSE SupportedTypes(DescsAtDepth(scene_description.elements, k))
  /\ gen_pc = "raised" =>
       RaisesWithin(PatternFrames(scene_description.definitions), 0)
         \/ RaisesWithin(scene_description.elements, MAX_RECURSION_DEPTH_GENERATION)

\* a scene with a description below the cap that would raise within it: the
\* tree is returned with the groups down to the cap
C22_Witness ==
  /\ gen_pc = "returned"
  /\ \E i \in 1..Len(DescsAtDepth(scene_description.elements,
                                  MAX_RECURSION_DEPTH_GENERATION + 1)) :
       DescsAtDepth(scene_description.elements, MAX_RECURSION_DEPTH_GENERATION + 1)[i]
         = BadPath
  /\ TagsOf(NodesAtLevel(ElementNodes, MAX_RECURSION_DEPTH_GENERATION)) = <<"g">>
  /\ deepest = MAX_RECURSION_DEPTH_GENERATION + 1


RECURSIVE WithoutSkipped(_)
\* a list of descriptions without those of an unknown kind or of no kind, at
\* every depth
WithoutSkipped(descs) ==
  LET kept == SelectSeq(descs, LAMBDA e : e.type \in SupportedKinds)
  IN  [i \in 1..Len(kept) |->
         [kept[i] EXCEPT !.children = WithoutSkipped(kept[i].children)]]

\* the scene without the descriptions that are skipped
SceneWithoutSkipped(scene_desc) ==
  Scene(scene_desc.background_color,
        [k \in 1..Len(scene_desc.definitions) |->
           [scene_desc.definitions[k] EXCEPT
              !.children = WithoutSkipped(scene_desc.definitions[k].children)]],
        WithoutSkipped(scene_desc.elements))

\* some description of an unknown kind or of no kind is in the list, at any
\* depth the builder looks at
HasSkipped(descs) ==
  \E k \in 0..MAX_RECURSION_DEPTH_GENERATION :
    \E i \in 1..Len(DescsAtDepth(descs, k)) :
      DescsAtDepth(descs, k)[i].type \notin SupportedKinds

\* C23: a description of an unknown kind, or with no kind, adds no node, and
\* the tree is the one built from the input without that description: its
\* siblings and its ancestors are emitted the same
C23_SkippedOnItsOwn ==
  /\ gen_pc = "returned" =>
       /\ generate(SceneWithoutSkipped(scene_description)).exc = "none"
       /\ svg_root = generate(SceneWithoutSkipped(scene_description)).val
  /\ gen_pc = "raised" =>
       generate(SceneWithoutSkipped(scene_description)).exc # "none"

\* a group with an unknown kind between two supported kinds: the group and
\* both siblings are in the tree
C23_Witness ==
  /\ gen_pc = "returned"
  /\ HasSkipped(scene_description.elements)
  /\ \E i \in 1..Len(scene_description.elements) :
       /\ scene_description.elements[i].type = "g"
       /\ scene_description.elements[i].children = Mixed
  /\ \E i \in 1..Len(ElementNodes) :
       /\ ElementNodes[i].tag = <<"g">>
       /\ TagsOf(ElementNodes[i].children) = <<"rect", "circle">>


\* the builder has returned or raised, or the optimizer has returned or raised
Terminated == gen_pc \in {"returned", "raised"} \/ pc = "once"

\* no call of _add_element is made, or is to be made, below the first depth
\* past the cap
CallsWithinCap ==
  /\ deepest <= MAX_RECURSION_DEPTH_GENERATION + 1
  /\ \A i \in 1..Len(calls) : calls[i][2] <= MAX_RECURSION_DEPTH_GENERATION + 1

\* the optimizer made at most two passes, STANDARD and then AGGRESSIVE
AtMostTwoPasses ==
  /\ Len(tiers) <= 2
  /\ Len(tiers) >= 1 => tiers[1].tier = "STANDARD"
  /\ Len(tiers) = 2 => tiers[2].tier = "AGGRESSIVE"

\* C24: each run comes to its end; the calls of the builder stay within one
\* level of the depth cap whatever the nesting of the groups, and the
\* optimizer makes at most two passes, STANDARD then AGGRESSIVE, and none again
C24_Terminates == [](CallsWithinCap /\ AtMostTwoPasses) /\ <>Terminated

\* the builder has returned from a scene whose groups are nested deeper than
\* the cap, having gone one level past the cap and no further
C24_Witness ==
  /\ gen_pc = "returned"
  /\ DescsAtDepth(scene_description.elements, MaxNest) # <<>>
  /\ deepest = MAX_RECURSION_DEPTH_GENERATION + 1
  /\ emitted = MAX_RECURSION_DEPTH_GENERATION + 1

\* the optimizer has returned after both passes
C24_WitnessTwoPasses ==
  /\ pc = "once"
  /\ Len(tiers) = 2
  /\ exc = "none"


----------------------------------------------------------------------------
\* Properties of the stages' failures

\* C25: a failing stage hands its unmodified input on.  In main the raw string
\* goes to the optimizer when the sanitizer raises and the sanitized string is
\* the output when the optimizer raises (cli.py lines 135-136, 146-147); the
\* part stated here is the one about the optimizer's collaborator: when every
\* call of scourString fails, by raising or by returning None, the optimizer
\* returns the document it was given
C25_CollaboratorFailureKeepsInput ==
  (/\ pc = "once"
   /\ tiers # <<>>
   /\ \A i \in 1..Len(tiers) : tiers[i].scour \in {"raise", "None"}) =>
    /\ exc = "none"
    /\ out1 = input

\* the same for the STANDARD pass alone, which is what _apply_scour does
C25_StandardFailureKeepsInput ==
  (/\ pc = "once"
   /\ tiers # <<>>
   /\ tiers[1].scour \in {"raise", "None"}) =>
    tiers[1].out = input


----------------------------------------------------------------------------
\* Properties of the built-in passes

\* the text has an attribute of default_attrs with its default value: the
\* name follows a quote or whitespace
CarriesDefault(s) ==
  \E k \in 1..Len(default_attrs) : \E i \in 2..Len(s) :
    /\ StartsAt(s, i, default_attrs[k])
    /\ s[i - 1] \in {Q, " ", "\n", "\t"}

\* C26: after the STANDARD built-in fallback no element of the output has an
\* attribute of the stripped list with its default value, wherever the
\* attribute stands among the attributes of its element
C26_NoDefaultAttributeLeft ==
  (/\ pc = "once"
   /\ tiers # <<>>
   /\ tiers[1].scour = "absent") =>
    ~CarriesDefault(tiers[1].out)


----------------------------------------------------------------------------
\* Properties of the placeholder

\* C27: the placeholder the sanitizer returns for a disallowed root satisfies
\* the allowlist of the default policy: each of its tags is allowed and none
\* of its attributes is prohibited, and sanitizing it again returns it
C27_PlaceholderSatisfiesAllowlist ==
  (Called /\ policy = DefaultPolicy /\ out1 = ErrorSvg) =>
    /\ \A n \in NodeSet(out1.root) :
         /\ n.tag.l \in ALLOWED_SVG_TAGS
         /\ \A a \in AttrNames(n) : a.l \notin PROHIBITED_SVG_ATTRIBUTES
    /\ pc = "twice" => out2 = ErrorSvg

\* the tags of the placeholder alone
C27_PlaceholderTagsAllowed ==
  (pc = "once" /\ policy = DefaultPolicy /\ out1 = ErrorSvg) =>
    \A n \in NodeSet(out1.root) : n.tag.l \in ALLOWED_SVG_TAGS

\* the attributes of the placeholder alone
C27_PlaceholderAttributesAllowed ==
  (pc = "once" /\ policy = DefaultPolicy /\ out1 = ErrorSvg) =>
    \A n \in NodeSet(out1.root) : \A a \in AttrNames(n) :
      a.l \notin PROHIBITED_SVG_ATTRIBUTES


----------------------------------------------------------------------------
\* Properties of the builder and the sanitizer together

RECURSIVE ElementTags(_)
\* the tags of an Element of the builder and of all below it, in document order
ElementTags(e) ==
  <<e.tag[1]>> \o ConcatAll([i \in 1..Len(e.children) |-> ElementTags(e.children[i])])

RECURSIVE LocalTags(_)
\* the local names of the tags of a node of a document and of all below it,
\* in document order
LocalTags(n) ==
  <<n.tag.l>> \o ConcatAll([i \in 1..Len(n.children) |-> LocalTags(n.children[i])])

\* the string generate returns, sanitized under the default policy
SanitizedBuild == sanitize_svg_string(_element_to_str(svg_root), DefaultPolicy)

\* C28: under the default policy the sanitizer keeps every node the builder
\* emitted: the sanitized output of generate has the nodes of the tree that
\* was built, in the same order
C28_SanitizerKeepsBuiltNodes ==
  gen_pc = "returned" =>
    /\ SanitizedBuild.exc = "none"
    /\ LocalTags(SanitizedBuild.val.root) = ElementTags(svg_root)

\* the same for the trees with no polyline
C28_KeepsAllButPolyline ==
  (/\ gen_pc = "returned"
   /\ \A i \in 1..Len(ElementTags(svg_root)) : ElementTags(svg_root)[i] # "polyline") =>
    /\ SanitizedBuild.exc = "none"
    /\ LocalTags(SanitizedBuild.val.root) = ElementTags(svg_root)


----------------------------------------------------------------------------
\* Properties of the built-in passes on ids and on the markup

\* the values of the id attributes of a text
IdValues(s) ==
  { SubSeq(s, i + 4, StopAt(s, i + 4, {Q}) - 1) :
      i \in { k \in 2..Len(s) : /\ StartsAt(s, k, <<"i", "d", "=", Q>>)
                                /\ s[k - 1] \in {Q, " ", "\n", "\t"} } }

\* C29: a built-in pass changes the value of no id attribute: the ids of its
\* output are the ids of its input, also the ids with digits, signs or dots
C29_IdsUnchanged ==
  pc = "once" =>
    \A k \in 1..Len(tiers) :
      tiers[k].scour = "absent" => IdValues(tiers[k].out) = IdValues(tiers[k].arg)


\* the quotes of a text that close an attribute value: every second one
ClosingQuotes(s) ==
  { i \in 1..Len(s) : /\ s[i] = Q
                      /\ Cardinality({ j \in 1..i : s[j] = Q }) % 2 = 0 }

\* after the value of an attribute comes whitespace or the end of the tag,
\* never the name of the next attribute
AttributesSeparated(s) ==
  \A i \in ClosingQuotes(s) :
    i < Len(s) => s[i + 1] \in {" ", "\n", "\t", "/", ">", "?"}

\* C30: a built-in pass keeps the markup well formed; in particular, when the
\* attributes of its input are separated by whitespace, so are those of its
\* output
C30_AttributesStaySeparated ==
  pc = "once" =>
    \A k \in 1..Len(tiers) :
      (tiers[k].scour = "absent" /\ AttributesSeparated(tiers[k].arg)) =>
        AttributesSeparated(tiers[k].out)

\* the inputs of the optimizer have their attributes separated
C30_InputsSeparated == AttributesSeparated(input)

====
